---- MODULE Spec2Model ----
(***************************************************************************)
(* Reconciliation engine of games-calendar: syncWithCalendar and            *)
(* repairSyncState (syncService), loadSyncState / saveSyncState             *)
(* (syncStateManager) and calculateEventHash (hashUtils), against a remote  *)
(* calendar whose calls may throw.                                          *)
(***************************************************************************)
EXTENDS Integers, Sequences, FiniteSets, TLC

\* ---------------------------------------------------------------- bounds
MaxLen == 2            \* longest localEvents array handed to one pass
MaxPasses == 2         \* number of syncWithCalendar invocations explored
MaxRepairs == 2        \* number of repairSyncState invocations explored

\* ---------------------------------------------------------------- inputs
Sports == {"bwf"}
Ids == {"A", "B"}
Names == {"X", "Y"}
Descs == {"d1", "d2"}

\* A canonical event as handed to syncWithCalendar.  The fields that do not
\* vary in this model (dates, location, category, level, prize, url) are
\* left out of the record; name stands for the hashed fields, description
\* for the fields the hash ignores.
Events == [id : Ids, name : Names, description : Descs,
           dateStart : {"2025-01-07"}, dateEnd : {"2025-01-12"}]

\* the event the seeded documents were synced from
EventAX == [id |-> "A", name |-> "X", description |-> "d1",
            dateStart |-> "2025-01-07", dateEnd |-> "2025-01-12"]

EventLists == UNION {[1..k -> Events] : k \in 0..MaxLen}

NullTime == 0          \* JSON null in lastSync

\* ------------------------------------------------------------ hashUtils
\* values of a field that JavaScript takes for false: a missing field, null
\* and the empty string
Undefined == "<undefined>"
Null == "<null>"
Falsy == {Undefined, Null, ""}

\* a projection that takes every value for the empty string
OrEmptyM(v) == ""

\* event.name || ''
OrEmpty(v) == IF v \in Falsy THEN "" ELSE v

\* A JavaScript object is the sequence of its <<key, value>> pairs in
\* insertion order, which is the order Object.keys and JSON.stringify follow.
EmptyObject == << >>

has(obj, key) == \E i \in DOMAIN obj : obj[i][1] = key

\* obj[key], undefined for a missing key
get(obj, key) ==
  IF has(obj, key)
    THEN obj[CHOOSE i \in DOMAIN obj : obj[i][1] = key][2]
    ELSE Undefined

\* event.location || {} (a location is an object when the event has one)
locationOrEmpty(event) ==
  IF has(event, "location") THEN get(event, "location") ELSE EmptyObject

\* a projection that also takes the description
hashFieldsM(event) ==
  << <<"name", OrEmpty(get(event, "name"))>>,
     <<"dateStart", OrEmpty(get(event, "dateStart"))>>,
     <<"dateEnd", OrEmpty(get(event, "dateEnd"))>>,
     <<"location", locationOrEmpty(event)>>,
     <<"category", OrEmpty(get(event, "category"))>>,
     <<"level", OrEmpty(get(event, "level"))>>,
     <<"prize", OrEmpty(get(event, "prize"))>>,
     <<"url", OrEmpty(get(event, "url"))>>,
     <<"description", OrEmpty(get(event, "description"))>> >>

\* the object literal hashFields, its keys in the order they are written
hashFields(event) ==
  << <<"name", OrEmpty(get(event, "name"))>>,
     <<"dateStart", OrEmpty(get(event, "dateStart"))>>,
     <<"dateEnd", OrEmpty(get(event, "dateEnd"))>>,
     <<"location", locationOrEmpty(event)>>,
     <<"category", OrEmpty(get(event, "category"))>>,
     <<"level", OrEmpty(get(event, "level"))>>,
     <<"prize", OrEmpty(get(event, "prize"))>>,
     <<"url", OrEmpty(get(event, "url"))>> >>

\* Array.prototype.sort on the key names (UTF-16 code unit order)
KeyOrder == <<"category", "dateEnd", "dateStart", "description", "level",
              "location", "name", "prize", "url">>

\* Object.keys(hashFields).sort()
sortedKeys(fields) == SelectSeq(KeyOrder, LAMBDA key : has(fields, key))

\* sortedFields[key] = hashFields[key] for the keys in sorted order; the
\* location object is taken over as it is
sortedFields(fields) ==
  LET keys == sortedKeys(fields)
  IN  [i \in 1..Len(keys) |-> <<keys[i], get(fields, keys[i])>>]

\* JSON.stringify of an object of scalars: members in insertion order,
\* members whose value is undefined left out
stringifyObject(obj) == SelectSeq(obj, LAMBDA member : member[2] # Undefined)

\* JSON.stringify(sortedFields): the text is modelled by the sequence of
\* members it lists, nested location included
stringify(fields) ==
  [i \in 1..Len(fields) |->
     IF fields[i][1] = "location"
       THEN <<fields[i][1], stringifyObject(fields[i][2])>>
       ELSE fields[i]]

\* md5(...).digest('hex').substring(0, 16): modelled by its argument (equal
\* texts give equal digests, and no collision between distinct texts)
md5Prefix(text) == text

calculateEventHash(event) ==
  LET hashInput == stringify(sortedFields(hashFields(event)))
  IN  md5Prefix(hashInput)

\* the object a canonical event record of this model stands for
objectOf(event) ==
  << <<"id", event.id>>, <<"name", event.name>>,
     <<"dateStart", event.dateStart>>, <<"dateEnd", event.dateEnd>>,
     <<"description", event.description>> >>

\* ---------------------------------------------------------- syncService
\* getCalendarName: the table entry of the sport, else the upper-cased id
\* followed by " Tournaments" (one name stands for those)
getCalendarName(sportId) ==
  IF sportId = "bwf" THEN "BWF Badminton Tournaments" ELSE "OTHER Tournaments"

\* what a call on a value that has no such method, or toISOString on an
\* invalid date, throws
TypeError == "<TypeError>"
RangeError == "<RangeError>"

\* the day after, as setUTCDate(getUTCDate() + 1) and toISOString give it
nextDay(day) ==
  CASE day = "2025-01-07" -> "2025-01-08"
    [] day = "2025-01-12" -> "2025-01-13"
    [] OTHER -> RangeError

\* formatDate: dateString.split('T')[0] throws on undefined and null; for an
\* end date the day after; the dates of this model carry no time part
formatDate(dateString, isEndDate) ==
  IF dateString \in {Undefined, Null} THEN TypeError
  ELSE IF isEndDate THEN nextDay(dateString)
  ELSE dateString

\* buildEventData: the request body sent to events.insert / events.update
buildEventData(event) ==
  [summary |-> event.name, description |-> OrEmpty(event.description),
   start |-> formatDate(event.dateStart, FALSE),
   end |-> formatDate(event.dateEnd, TRUE)]

\* a build that reports no error
buildEventDataThrowsM(event) == FALSE

\* formatDate throws inside buildEventData, before any request is sent
buildEventDataThrows(event) ==
  \/ formatDate(event.dateStart, FALSE) \in {TypeError, RangeError}
  \/ formatDate(event.dateEnd, TRUE) \in {TypeError, RangeError}

\* localEventsMap = new Map(); for (event of localEvents) map.set(event.id, event)
\* Keys iterate in order of first insertion, a later set() replaces the value.
RECURSIVE mapKeys(_)
mapKeys(es) ==
  IF es = <<>> THEN <<>>
  ELSE LET rest == mapKeys(SubSeq(es, 1, Len(es) - 1))
           id == es[Len(es)].id
       IN IF \E i \in 1..Len(rest) : rest[i] = id THEN rest
          ELSE Append(rest, id)

mapHas(es, id) == \E i \in 1..Len(es) : es[i].id = id

mapGet(es, id) ==
  es[CHOOSE i \in 1..Len(es) :
       /\ es[i].id = id
       /\ \A j \in (i + 1)..Len(es) : es[j].id # id]

\* the Map as a function id -> event
localEventsMapOf(es) ==
  [id \in {es[i].id : i \in 1..Len(es)} |-> mapGet(es, id)]

\* eventHash of every entry of the Map
hashesOf(es) ==
  [id \in DOMAIN localEventsMapOf(es) |->
     calculateEventHash(objectOf(localEventsMapOf(es)[id]))]

\* ------------------------------------------------------ syncStateManager
EmptySyncState == [version |-> "1.0", lastSync |-> NullTime, sports |-> << >>]

NoFile == [exists |-> FALSE]
FileOf(doc) == [exists |-> TRUE, doc |-> doc]

\* fs.readFile of the state file when nothing else goes wrong: its content,
\* or the error ENOENT when there is no file
readFile(file) ==
  IF file.exists THEN [kind |-> "data", doc |-> file.doc]
  ELSE [kind |-> "error", code |-> "ENOENT"]

\* a catch that answers every failure with the empty state
loadSyncStateFromM(read) ==
  IF read.kind = "data" THEN [kind |-> "return", value |-> read.doc]
  ELSE [kind |-> "return", value |-> EmptySyncState]

\* loadSyncState after readFile gave `read`: the parsed document; the empty
\* state for error.code === 'ENOENT'; any other error of readFile, and the
\* SyntaxError of JSON.parse on a damaged file, thrown on
loadSyncStateFrom(read) ==
  IF read.kind = "data" THEN [kind |-> "return", value |-> read.doc]
  ELSE IF read.kind = "error" /\ read.code = "ENOENT"
    THEN [kind |-> "return", value |-> EmptySyncState]
  ELSE [kind |-> "throw",
        error |-> IF read.kind = "error" THEN read.code ELSE "SyntaxError"]

\* loadSyncState as the passes of this model call it
loadSyncState(file) == loadSyncStateFrom(readFile(file)).value

retries == 3

\* an assignment that replaces the whole object by the one member
PutM(f, k, v) == [x \in {k} |-> v]

\* function update that may add a key (obj[key] = value)
Put(f, k, v) == [x \in (DOMAIN f) \cup {k} |-> IF x = k THEN v ELSE f[x]]
\* a delete that leaves the key in place
RemoveM(f, k) == f

\* delete obj[key]
Remove(f, k) == [x \in (DOMAIN f) \ {k} |-> f[x]]

VARIABLES
  disk,            \* data/sync-state.json: NoFile or FileOf(document)
  calendarList,    \* remote calendars: set of [id, summary]
  remote,          \* remote calendar events: set of [id, calendarId, data]
  nextRid,         \* next event id the remote system hands out
  now,             \* clock read by new Date()
  passes,          \* number of syncWithCalendar invocations so far
  pc,              \* position of the running pass
  sportId,         \* arguments of the running / last pass
  localEvents,
  calendarId,      \* locals of the running / last pass
  syncState,
  sportSyncState,
  stats,
  idx,             \* position of the loop over localEventsMap.entries()
  todo,            \* existingEventIds not yet visited by the delete loop
  saveTry,         \* loop variable i of saveSyncState
  delays,          \* setTimeout delays waited by the running saveSyncState
  result,          \* outcome of the last pass: none, return or throw
  log,             \* console lines / adapter calls of the running / last pass
  prior,           \* sportSyncState.events as loaded at pass start
  prev,            \* event hashes, log and result of the pass before
  repairs,         \* number of repairSyncState invocations so far
  repairedCount,   \* locals of the running / last repairSyncState
  totalCount,
  fnIn,            \* arguments of the utility function applied last
  fnOut            \* what it returned

vars == <<disk, calendarList, remote, nextRid, now, passes, pc, sportId,
          localEvents, calendarId, syncState, sportSyncState, stats, idx,
          todo, saveTry, delays, result, log, prior, prev, repairs,
          repairedCount, totalCount, fnIn, fnOut>>

\* what only repairSyncState and the utility applications write
auxVars == <<repairs, repairedCount, totalCount, fnIn, fnOut>>

NoCall == [fn |-> "none"]

InitAux ==
  /\ repairs = 0
  /\ repairedCount = 0
  /\ totalCount = 0
  /\ fnIn = NoCall
  /\ fnOut = NoCall

NoResult == [kind |-> "none"]
Thrown(at) == [kind |-> "throw", at |-> at]
Returned(cal, st) ==
  [kind |-> "return", success |-> TRUE, calendarId |-> cal, stats |-> st]

NoPrev == [kind |-> "none"]

ZeroStats == [created |-> 0, updated |-> 0, deleted |-> 0, unchanged |-> 0]

Init ==
  /\ disk = NoFile
  /\ calendarList = {}
  /\ remote = {}
  /\ nextRid = 1
  /\ now = 1
  /\ passes = 0
  /\ pc = "idle"
  /\ sportId = "bwf"
  /\ localEvents = <<>>
  /\ calendarId = 0
  /\ syncState = EmptySyncState
  /\ sportSyncState = [calendarId |-> 0, events |-> << >>,
                       stats |-> [totalEvents |-> 0, lastUpdate |-> NullTime]]
  /\ stats = ZeroStats
  /\ idx = 1
  /\ todo = {}
  /\ saveTry = 0
  /\ delays = <<>>
  /\ result = NoResult
  /\ log = <<>>
  /\ prior = << >>
  /\ prev = NoPrev
  /\ InitAux

\* what the pass before left behind, kept for two-pass properties
Summary ==
  IF passes = 0 THEN NoPrev
  ELSE [kind |-> "pass", hashes |-> hashesOf(localEvents),
        log |-> log, result |-> result]

\* getOrCreateCalendar: the calendar whose summary is the sport's name, or a
\* newly inserted one
existingCalendar(s) ==
  {c \in calendarList : c.summary = getCalendarName(s)}

getOrCreateCalendarId(s) ==
  IF existingCalendar(s) # {}
    THEN (CHOOSE c \in existingCalendar(s) : TRUE).id
    ELSE Cardinality(calendarList) + 1

getOrCreateCalendarList(s) ==
  IF existingCalendar(s) # {} THEN calendarList
  ELSE calendarList \cup
         {[id |-> Cardinality(calendarList) + 1, summary |-> getCalendarName(s)]}

\* syncWithCalendar, steps 1-5: authorize, getOrCreateCalendar, loadSyncState,
\* localEventsMap, stats
StartPass(s, es) ==
  /\ pc = "idle"
  /\ passes < MaxPasses
  /\ passes' = passes + 1
  /\ now' = now + 1
  /\ sportId' = s
  /\ localEvents' = es
  /\ calendarId' = getOrCreateCalendarId(s)
  /\ calendarList' = getOrCreateCalendarList(s)
  /\ syncState' = loadSyncState(disk)
  /\ sportSyncState' =
       IF s \in DOMAIN loadSyncState(disk).sports
         THEN loadSyncState(disk).sports[s]
         ELSE [calendarId |-> getOrCreateCalendarId(s), events |-> << >>,
               stats |-> [totalEvents |-> 0, lastUpdate |-> now']]
  /\ prior' = sportSyncState'.events
  /\ stats' = ZeroStats
  /\ idx' = 1
  /\ todo' = {}
  /\ saveTry' = 0
  /\ delays' = <<>>
  /\ result' = NoResult
  /\ log' = <<>>
  /\ prev' = Summary
  /\ pc' = "events"
  /\ UNCHANGED <<disk, remote, nextRid>>
  /\ UNCHANGED auxVars

\* authorize, getOrCreateCalendar or loadSyncState throws: the outer catch
\* rethrows before anything of the pass has run
StartPassThrows(s, es) ==
  /\ pc = "idle"
  /\ passes < MaxPasses
  /\ passes' = passes + 1
  /\ now' = now + 1
  /\ sportId' = s
  /\ localEvents' = es
  /\ result' = Thrown("start")
  /\ log' = <<>>
  /\ idx' = 1
  /\ stats' = ZeroStats
  /\ prior' = << >>
  /\ prev' = Summary
  /\ UNCHANGED <<disk, calendarList, remote, nextRid, pc, calendarId,
                 syncState, sportSyncState, todo, saveTry, delays>>
  /\ UNCHANGED auxVars

Line(op, id, rid, ok) == [op |-> op, id |-> id, rid |-> rid, ok |-> ok]

\* calendar.events.update / events.delete on an event id: the request throws
\* on a transport fault (~ok) and also when the calendar holds no such event,
\* which the remote answers with an error status
reaches(ok, entities, cal, rid) ==
  ok /\ \E r \in entities : r.id = rid /\ r.calendarId = cal

\* a branch that never takes SKIP
decideM(events, eventId, eventHash) ==
  IF eventId \notin DOMAIN events THEN "CREATE" ELSE "UPDATE"

\* the three-way branch of step 6: !existingSync, existingSync.hash !== eventHash
decide(events, eventId, eventHash) ==
  IF eventId \notin DOMAIN events THEN "CREATE"
  ELSE IF events[eventId].hash # eventHash THEN "UPDATE"
  ELSE "SKIP"

\* a CREATE that stores the hash of an empty event
createdM(events, eventId, googleEventId, t, eventHash) ==
  Put(events, eventId, [googleEventId |-> googleEventId, lastSynced |-> t,
                        hash |-> calculateEventHash(
                          objectOf([id |-> eventId, name |-> "",
                                    description |-> "", dateStart |-> "",
                                    dateEnd |-> ""]))])

\* sportSyncState.events[eventId] = { googleEventId, lastSynced, hash }
created(events, eventId, googleEventId, t, eventHash) ==
  Put(events, eventId, [googleEventId |-> googleEventId, lastSynced |-> t,
                        hash |-> eventHash])

\* an UPDATE that refreshes lastSynced and keeps the old hash
updatedM(events, eventId, t, eventHash) ==
  [events EXCEPT ![eventId] = [@ EXCEPT !.lastSynced = t]]

\* existingSync.hash = eventHash; existingSync.lastSynced = new Date()
updated(events, eventId, t, eventHash) ==
  [events EXCEPT ![eventId] = [@ EXCEPT !.hash = eventHash, !.lastSynced = t]]

\* bookkeeping that runs whether or not the call threw
afterCallM(ok, new, old) == new

\* try { await call; <statements> } catch { console.error }: the statements
\* after the awaited call run only when the call did not throw
afterCall(ok, new, old) == IF ok THEN new ELSE old

\* a loop that a throwing iteration leaves
nextIdxM(i, n, ok) == IF ok THEN i + 1 ELSE n + 1

\* the for loop goes on to the next entry whatever the iteration did
nextIdx(i, n, ok) == i + 1

\* the orphan test inverted
isOrphanM(es, eventId) == mapHas(es, eventId)

\* !localEventsMap.has(eventId)
isOrphan(es, eventId) == ~mapHas(es, eventId)

\* step 6, one iteration of the loop over localEventsMap.entries();
\* ok is the outcome of the adapter call the iteration awaits
ProcessEvent(ok) ==
  /\ pc = "events"
  /\ idx <= Len(mapKeys(localEvents))
  /\ LET eventId == mapKeys(localEvents)[idx]
         event == mapGet(localEvents, eventId)
         eventHash == calculateEventHash(objectOf(event))
         events == sportSyncState.events
         action == decide(events, eventId, eventHash)
         \* the call returned: buildEventData did not throw and neither did
         \* the request
         done == /\ ok
                 /\ (action = "SKIP" \/ ~buildEventDataThrows(event))
                 /\ action = "UPDATE" =>
                      reaches(ok, remote, calendarId,
                              events[eventId].googleEventId)
     IN /\ action = "CREATE" =>
             \* createCalendarEvent: events.insert answers response.data.id
             /\ remote' = IF done
                            THEN remote \cup
                                   {[id |-> nextRid, calendarId |-> calendarId,
                                     data |-> buildEventData(event)]}
                            ELSE remote
             /\ nextRid' = IF done THEN nextRid + 1 ELSE nextRid
             /\ sportSyncState' =
                  [sportSyncState EXCEPT !.events =
                     afterCall(done, created(@, eventId, nextRid, now, eventHash), @)]
             /\ stats' = [stats EXCEPT !.created = afterCall(done, @ + 1, @)]
             /\ log' = Append(log, Line("create", eventId,
                                        IF done THEN nextRid ELSE 0, done))
        /\ action = "UPDATE" =>
             \* updateCalendarEvent: events.update on existingSync.googleEventId
             /\ remote' = IF done
                            THEN {IF r.id = events[eventId].googleEventId
                                       /\ r.calendarId = calendarId
                                    THEN [r EXCEPT !.data = buildEventData(event)]
                                    ELSE r : r \in remote}
                            ELSE remote
             /\ sportSyncState' =
                  [sportSyncState EXCEPT !.events =
                     afterCall(done, updated(@, eventId, now, eventHash), @)]
             /\ stats' = [stats EXCEPT !.updated = afterCall(done, @ + 1, @)]
             /\ log' = Append(log, Line("update", eventId,
                                        events[eventId].googleEventId, done))
             /\ UNCHANGED nextRid
        /\ action = "SKIP" =>
             /\ ok
             /\ stats' = [stats EXCEPT !.unchanged = @ + 1]
             /\ log' = Append(log, Line("skip", eventId,
                                        events[eventId].googleEventId, TRUE))
             /\ UNCHANGED <<remote, nextRid, sportSyncState>>
        /\ idx' = nextIdx(idx, Len(mapKeys(localEvents)), done)
  /\ UNCHANGED <<disk, calendarList, now, passes, pc, sportId, localEvents,
                 calendarId, syncState, todo, saveTry, delays, result,
                 prior, prev>>
  /\ UNCHANGED auxVars

\* a loop that is left before its last entry
loopDoneM(i, n) == i >= n

\* for (const [eventId, event] of localEventsMap.entries()) is over when
\* every entry has had its iteration
loopDone(i, n) == i > n

\* step 7, existingEventIds = Object.keys(sportSyncState.events)
BeginDeletes ==
  /\ pc = "events"
  /\ loopDone(idx, Len(mapKeys(localEvents)))
  /\ todo' = DOMAIN sportSyncState.events
  /\ pc' = "deletes"
  /\ UNCHANGED <<disk, calendarList, remote, nextRid, now, passes, sportId,
                 localEvents, calendarId, syncState, sportSyncState, stats,
                 idx, saveTry, delays, result, log, prior, prev>>
  /\ UNCHANGED auxVars

\* step 7, one iteration of the loop over existingEventIds.  The code visits
\* the keys in Object.keys order; the iterations do not depend on each other
\* and the model allows every order.
DeleteStep(eventId, ok) ==
  /\ pc = "deletes"
  /\ eventId \in todo
  /\ todo' = todo \ {eventId}
  /\ IF isOrphan(localEvents, eventId)
       THEN LET syncData == sportSyncState.events[eventId]
                done == reaches(ok, remote, calendarId,
                                syncData.googleEventId) IN
         \* deleteCalendarEvent: events.delete on syncData.googleEventId
         /\ remote' = IF done
                        THEN {r \in remote :
                                ~(r.id = syncData.googleEventId
                                  /\ r.calendarId = calendarId)}
                        ELSE remote
         /\ sportSyncState' =
              [sportSyncState EXCEPT !.events =
                 afterCall(done, Remove(@, eventId), @)]
         /\ stats' = [stats EXCEPT !.deleted = afterCall(done, @ + 1, @)]
         /\ log' = Append(log, Line("delete", eventId,
                                    syncData.googleEventId, done))
       ELSE /\ ok
            /\ UNCHANGED <<remote, sportSyncState, stats, log>>
  /\ UNCHANGED <<disk, calendarList, nextRid, now, passes, pc, sportId,
                 localEvents, calendarId, syncState, idx, saveTry, delays,
                 result, prior, prev>>
  /\ UNCHANGED auxVars

\* step 8 up to the call of saveSyncState
UpdateSyncState ==
  /\ pc = "deletes"
  /\ todo = {}
  /\ sportSyncState' =
       [sportSyncState EXCEPT !.stats =
          [totalEvents |-> Len(localEvents), lastUpdate |-> now]]
  /\ syncState' =
       [syncState EXCEPT !.sports = Put(@, sportId, sportSyncState'),
                         !.lastSync = now]
  /\ saveTry' = 0
  /\ delays' = <<>>
  /\ pc' = "save"
  /\ UNCHANGED <<disk, calendarList, remote, nextRid, now, passes, sportId,
                 localEvents, calendarId, stats, idx, todo, result, log,
                 prior, prev>>
  /\ UNCHANGED auxVars

\* a wait of one second before every further attempt
backoffM(i) == 1000

\* setTimeout(resolve, 1000 * (i + 1)) between two attempts
backoff(i) == 1000 * (i + 1)

\* a catch that swallows the error of saveSyncState
afterSaveM(saved, cal, st) == Returned(cal, st)

\* what syncWithCalendar hands its caller after step 8: the success object
\* with the statistics, or the error of saveSyncState rethrown by the catch
afterSave(saved, cal, st) == IF saved THEN Returned(cal, st) ELSE Thrown("save")

\* a write that only patches lastSync into an existing file
writeFileM(file, doc) ==
  IF file.exists THEN FileOf([file.doc EXCEPT !.lastSync = doc.lastSync])
  ELSE FileOf(doc)

\* fs.writeFile(SYNC_STATE_FILE, JSON.stringify(syncState, null, 2)): the
\* file becomes the document handed over, whatever it held
writeFile(file, doc) == FileOf(doc)

\* saveSyncState, one iteration of the retry loop; ok is the outcome of
\* mkdir + writeFile.  On success syncWithCalendar returns its statistics,
\* after the last failed attempt the error escapes the pass.
SaveAttempt(ok) ==
  /\ pc = "save"
  /\ saveTry < retries
  /\ IF ok
       THEN /\ disk' = writeFile(disk, syncState)
            /\ result' = afterSave(TRUE, calendarId, stats)
            /\ pc' = "idle"
            /\ UNCHANGED <<saveTry, delays>>
       ELSE IF saveTry = retries - 1
         THEN /\ result' = afterSave(FALSE, calendarId, stats)
              /\ pc' = "idle"
              /\ UNCHANGED <<disk, saveTry, delays>>
         ELSE /\ delays' = Append(delays, backoff(saveTry))
              /\ saveTry' = saveTry + 1
              /\ UNCHANGED <<disk, result, pc>>
  /\ UNCHANGED <<calendarList, remote, nextRid, now, passes, sportId,
                 localEvents, calendarId, syncState, sportSyncState, stats,
                 idx, todo, log, prior, prev>>
  /\ UNCHANGED auxVars

Next ==
  \/ \E s \in Sports, es \in EventLists : StartPass(s, es)
  \/ \E s \in Sports, es \in EventLists : StartPassThrows(s, es)
  \/ \E ok \in BOOLEAN : ProcessEvent(ok)
  \/ BeginDeletes
  \/ \E eventId \in Ids, ok \in BOOLEAN : DeleteStep(eventId, ok)
  \/ UpdateSyncState
  \/ \E ok \in BOOLEAN : SaveAttempt(ok)

Spec == Init /\ [][Next]_vars

\* A document an earlier run left behind: event A was created as remote
\* event 1 from name X, and nothing else is known.
InitSeeded ==
  /\ disk = FileOf([version |-> "1.0", lastSync |-> 1,
                    sports |-> [s \in {"bwf"} |->
                      [calendarId |-> 1,
                       events |-> [id \in {"A"} |->
                          [googleEventId |-> 1, lastSynced |-> 1,
                           hash |-> calculateEventHash(objectOf(
                             EventAX))]],
                       stats |-> [totalEvents |-> 1, lastUpdate |-> 1]]]])
  /\ calendarList = {[id |-> 1, summary |-> getCalendarName("bwf")]}
  /\ remote = {[id |-> 1, calendarId |-> 1,
                data |-> buildEventData(
                  EventAX)]}
  /\ nextRid = 2
  /\ now = 1
  /\ passes = 0
  /\ pc = "idle"
  /\ sportId = "bwf"
  /\ localEvents = <<>>
  /\ calendarId = 0
  /\ syncState = EmptySyncState
  /\ sportSyncState = [calendarId |-> 0, events |-> << >>,
                       stats |-> [totalEvents |-> 0, lastUpdate |-> NullTime]]
  /\ stats = ZeroStats
  /\ idx = 1
  /\ todo = {}
  /\ saveTry = 0
  /\ delays = <<>>
  /\ result = NoResult
  /\ log = <<>>
  /\ prior = << >>
  /\ prev = NoPrev
  /\ InitAux

SpecSeeded == InitSeeded /\ [][Next]_vars

\* ------------------------------------------------------- repairSyncState
Repaired(n, m) == [kind |-> "repaired", repaired |-> n, total |-> m]

\* one calendar.events.get call and what it answered
Check(id, rid, answer) == [op |-> "get", id |-> id, rid |-> rid,
                           answer |-> answer]
\* one mkdir + writeFile attempt of saveSyncState
Write(ok) == [op |-> "write", ok |-> ok]

\* calendar.events.get({calendarId, eventId}): a transport fault, or the
\* truth about the entity
eventsGet(cal, rid, fault) ==
  IF fault THEN "error"
  ELSE IF \E r \in remote : r.id = rid /\ r.calendarId = cal THEN "found"
  ELSE "404"

\* a purge on every failed existence check
purgesM(answer) == answer # "found"

\* the catch of the existence check: error.code === 404
purges(answer) == answer = "404"

\* a counter that counts every checked record
countedM(n, answer) == n + 1

\* repairedCount++ beside the purge
counted(n, answer) == IF purges(answer) THEN n + 1 ELSE n

\* a repair that always writes
mustSaveM(n) == TRUE

\* if (repairedCount > 0) saveSyncState
mustSave(n) == n > 0

\* authorize, loadSyncState, the lookup of the source and the early return
StartRepair(s) ==
  /\ pc = "idle"
  /\ repairs < MaxRepairs
  /\ repairs' = repairs + 1
  /\ sportId' = s
  /\ syncState' = loadSyncState(disk)
  /\ log' = <<>>
  /\ repairedCount' = 0
  /\ IF s \notin DOMAIN syncState'.sports
       THEN /\ result' = Repaired(0, 0)
            /\ prior' = << >>
            /\ totalCount' = 0
            /\ UNCHANGED <<pc, sportSyncState, calendarId, todo>>
       ELSE /\ sportSyncState' = syncState'.sports[s]
            /\ calendarId' = sportSyncState'.calendarId
            /\ prior' = sportSyncState'.events
            /\ totalCount' = Cardinality(DOMAIN sportSyncState'.events)
            /\ todo' = DOMAIN sportSyncState'.events
            /\ result' = NoResult
            /\ pc' = "checks"
  /\ UNCHANGED <<disk, calendarList, remote, nextRid, now, passes,
                 localEvents, stats, idx, saveTry, delays, prev, fnIn, fnOut>>

\* one iteration of the loop over Object.entries(sportState.events)
RepairCheck(eventId, fault) ==
  /\ pc = "checks"
  /\ eventId \in todo
  /\ LET rid == sportSyncState.events[eventId].googleEventId
         answer == eventsGet(calendarId, rid, fault)
     IN  /\ log' = Append(log, Check(eventId, rid, answer))
         /\ sportSyncState' =
              IF purges(answer)
                THEN [sportSyncState EXCEPT !.events = Remove(@, eventId)]
                ELSE sportSyncState
         /\ repairedCount' = counted(repairedCount, answer)
  /\ todo' = todo \ {eventId}
  /\ UNCHANGED <<disk, calendarList, remote, nextRid, now, passes, pc,
                 sportId, localEvents, calendarId, syncState, stats, idx,
                 saveTry, delays, result, prior, prev, repairs, totalCount,
                 fnIn, fnOut>>

\* after the loop: save when something was purged, else return the counts.
\* sportState aliases syncState.sports[sportId], so the purges are in the
\* document handed to saveSyncState.
RepairDone ==
  /\ pc = "checks"
  /\ todo = {}
  /\ IF mustSave(repairedCount)
       THEN /\ syncState' =
                 [syncState EXCEPT !.sports = Put(@, sportId, sportSyncState)]
            /\ saveTry' = 0
            /\ delays' = <<>>
            /\ pc' = "rsave"
            /\ UNCHANGED result
       ELSE /\ result' = Repaired(repairedCount, totalCount)
            /\ pc' = "idle"
            /\ UNCHANGED <<syncState, saveTry, delays>>
  /\ UNCHANGED <<disk, calendarList, remote, nextRid, now, passes, sportId,
                 localEvents, calendarId, sportSyncState, stats, idx, todo,
                 log, prior, prev>>
  /\ UNCHANGED auxVars

\* saveSyncState called by repairSyncState, one iteration of its retry loop
RepairSave(ok) ==
  /\ pc = "rsave"
  /\ saveTry < retries
  /\ log' = Append(log, Write(ok))
  /\ IF ok
       THEN /\ disk' = FileOf(syncState)
            /\ result' = Repaired(repairedCount, totalCount)
            /\ pc' = "idle"
            /\ UNCHANGED <<saveTry, delays>>
       ELSE IF saveTry = retries - 1
         THEN /\ result' = Thrown("save")
              /\ pc' = "idle"
              /\ UNCHANGED <<disk, saveTry, delays>>
         ELSE /\ delays' = Append(delays, backoff(saveTry))
              /\ saveTry' = saveTry + 1
              /\ UNCHANGED <<disk, result, pc>>
  /\ UNCHANGED <<calendarList, remote, nextRid, now, passes, sportId,
                 localEvents, calendarId, syncState, sportSyncState, stats,
                 idx, todo, prior, prev>>
  /\ UNCHANGED auxVars

\* external drift: somebody removes an event from the remote calendar
\* while no operation runs
Drift(rid) ==
  /\ pc = "idle"
  /\ \E r \in remote : r.id = rid
  /\ remote' = {r \in remote : r.id # rid}
  /\ UNCHANGED <<disk, calendarList, nextRid, now, passes, pc, sportId,
                 localEvents, calendarId, syncState, sportSyncState, stats,
                 idx, todo, saveTry, delays, result, log, prior, prev>>
  /\ UNCHANGED auxVars

\* the remote id the seeded documents give an event
ridOf(id) == IF id = "A" THEN 1 ELSE 2

Rids == {ridOf(id) : id \in Ids}

\* a state document of one source holding the records recs
DocOf(recs) ==
  [version |-> "1.0", lastSync |-> 1,
   sports |-> [s \in {"bwf"} |->
     [calendarId |-> 1,
      events |-> [id \in recs |->
         [googleEventId |-> ridOf(id), lastSynced |-> 1,
          hash |-> calculateEventHash(objectOf(
            [EventAX EXCEPT !.id = id]))]],
      stats |-> [totalEvents |-> Cardinality(recs), lastUpdate |-> 1]]]]

\* the same document with the entry of a second source beside it
DocOfTwo(recs) ==
  [DocOf(recs) EXCEPT !.sports =
     [s \in {"bwf", "tennis"} |->
        IF s = "bwf" THEN @["bwf"]
        ELSE [calendarId |-> 2,
              events |-> [id \in {"A"} |->
                 [googleEventId |-> 3, lastSynced |-> 1,
                  hash |-> calculateEventHash(objectOf(EventAX))]],
              stats |-> [totalEvents |-> 1, lastUpdate |-> 1]]]]

\* what earlier passes and drift can have left: no document, a document
\* without the source, or a document with records of which any may have
\* lost its remote entity, alone or beside another source's entry
InitRepair ==
  /\ \E recs \in SUBSET Ids, file \in {"none", "empty", "source", "two"} :
       /\ disk = CASE file = "none" -> NoFile
                   [] file = "empty" -> FileOf(EmptySyncState)
                   [] file = "two" -> FileOf(DocOfTwo(recs))
                   [] OTHER -> FileOf(DocOf(recs))
       /\ \E present \in SUBSET {ridOf(id) : id \in recs} :
            remote = {[id |-> rid, calendarId |-> 1,
                       data |-> buildEventData(
                         EventAX)]
                      : rid \in present}
  /\ calendarList = {[id |-> 1, summary |-> getCalendarName("bwf")]}
  /\ nextRid = 3
  /\ now = 1
  /\ passes = 0
  /\ pc = "idle"
  /\ sportId = "bwf"
  /\ localEvents = <<>>
  /\ calendarId = 0
  /\ syncState = EmptySyncState
  /\ sportSyncState = [calendarId |-> 0, events |-> << >>,
                       stats |-> [totalEvents |-> 0, lastUpdate |-> NullTime]]
  /\ stats = ZeroStats
  /\ idx = 1
  /\ todo = {}
  /\ saveTry = 0
  /\ delays = <<>>
  /\ result = NoResult
  /\ log = <<>>
  /\ prior = << >>
  /\ prev = NoPrev
  /\ InitAux

NextRepair ==
  \/ \E s \in Sports : StartRepair(s)
  \/ \E eventId \in Ids, fault \in BOOLEAN : RepairCheck(eventId, fault)
  \/ RepairDone
  \/ \E ok \in BOOLEAN : RepairSave(ok)
  \/ \E rid \in Rids : Drift(rid)

SpecRepair == InitRepair /\ [][NextRepair]_vars

\* --------------------------------------------- the utilities on their own
\* what fs.readFile can give loadSyncState: a document, a damaged file, or
\* an error with a code
ErrorCodes == {"ENOENT", "EACCES", "EISDIR"}

Reads ==
  {[kind |-> "data", doc |-> d] :
     d \in {EmptySyncState} \cup {DocOf(recs) : recs \in SUBSET Ids}}
  \cup {[kind |-> "garbage"]}
  \cup {[kind |-> "error", code |-> c] : c \in ErrorCodes}

\* the keys of a standardized event in the order the adapter writes them,
\* and in another order
LiteralKeys == <<"id", "name", "location", "dateStart", "dateEnd",
                 "category", "level", "prize", "url", "description",
                 "source", "lastUpdated">>

KeyOrders ==
  {LiteralKeys,
   [i \in 1..Len(LiteralKeys) |-> LiteralKeys[Len(LiteralKeys) + 1 - i]]}

LocationOrders == {<<"city", "country", "venue">>,
                   <<"venue", "country", "city">>,
                   <<"country", "city", "venue">>}

\* values of a field that may be missing, null or empty
Prizes == {Undefined, Null, "", "USD 1,300,000"}

EventValues ==
  [id : {"A"}, name : Names,
   location : [city : {"Kuala Lumpur"}, country : {"Malaysia"},
               venue : {"Axiata Arena", ""}],
   dateStart : {"2025-01-07"}, dateEnd : {"2025-01-12"},
   category : {"BWF Tournament"}, level : {"Super 1000"}, prize : Prizes,
   url : {""}, description : Descs, source : {"BWF", "bwf-api"},
   lastUpdated : {"t1", "t2"}]

\* the event object with the values v, its keys written in the order keys
\* and those of its location in the order lkeys; a field whose value is
\* undefined is a key the object does not have
EventObject(keys, lkeys, v) ==
  LET present == SelectSeq(keys, LAMBDA key :
                             key = "location" \/ v[key] # Undefined)
  IN  [i \in 1..Len(present) |->
         IF present[i] = "location"
           THEN <<present[i],
                  [j \in 1..Len(lkeys) |->
                     <<lkeys[j], v.location[lkeys[j]]>>]>>
           ELSE <<present[i], v[present[i]]>>]

EventObjects ==
  {EventObject(keys, lkeys, v) :
     keys \in KeyOrders, lkeys \in LocationOrders, v \in EventValues}

\* the events as the adapter wrote them at an earlier sync
StoredObjects ==
  {EventObject(LiteralKeys, <<"city", "country", "venue">>, v) :
     v \in {w \in EventValues : /\ w.description = "d1"
                                /\ w.source = "BWF"
                                /\ w.lastUpdated = "t1"}}

\* loadSyncState on one outcome of readFile, or calculateEventHash on two
\* event objects
UtilCalls ==
  {[fn |-> "loadSyncState", read |-> r] : r \in Reads}
  \cup {[fn |-> "calculateEventHash", a |-> a, b |-> b] :
          a \in StoredObjects, b \in EventObjects}

InitUtil ==
  /\ disk = NoFile
  /\ calendarList = {}
  /\ remote = {}
  /\ nextRid = 1
  /\ now = 1
  /\ passes = 0
  /\ pc = "idle"
  /\ sportId = "bwf"
  /\ localEvents = <<>>
  /\ calendarId = 0
  /\ syncState = EmptySyncState
  /\ sportSyncState = [calendarId |-> 0, events |-> << >>,
                       stats |-> [totalEvents |-> 0, lastUpdate |-> NullTime]]
  /\ stats = ZeroStats
  /\ idx = 1
  /\ todo = {}
  /\ saveTry = 0
  /\ delays = <<>>
  /\ result = NoResult
  /\ log = <<>>
  /\ prior = << >>
  /\ prev = NoPrev
  /\ repairs = 0
  /\ repairedCount = 0
  /\ totalCount = 0
  /\ fnIn \in UtilCalls
  /\ fnOut = NoCall

ApplyLoad ==
  /\ fnIn.fn = "loadSyncState"
  /\ fnOut = NoCall
  /\ fnOut' = loadSyncStateFrom(fnIn.read)
  /\ UNCHANGED <<disk, calendarList, remote, nextRid, now, passes, pc,
                 sportId, localEvents, calendarId, syncState, sportSyncState,
                 stats, idx, todo, saveTry, delays, result, log, prior, prev,
                 repairs, repairedCount, totalCount, fnIn>>

\* the digests of both events, and what step 6 of a pass decides for event b
\* when the record of its id was stored by a CREATE of event a
ApplyHash ==
  /\ fnIn.fn = "calculateEventHash"
  /\ fnOut = NoCall
  /\ LET ha == calculateEventHash(fnIn.a)
         hb == calculateEventHash(fnIn.b)
         events == created(<< >>, get(fnIn.a, "id"), 1, 1, ha)
     IN  fnOut' = [a |-> ha, b |-> hb,
                   action |-> decide(events, get(fnIn.b, "id"), hb)]
  /\ UNCHANGED <<disk, calendarList, remote, nextRid, now, passes, pc,
                 sportId, localEvents, calendarId, syncState, sportSyncState,
                 stats, idx, todo, saveTry, delays, result, log, prior, prev,
                 repairs, repairedCount, totalCount, fnIn>>

NextUtil ==
  \/ ApplyLoad
  \/ ApplyHash

SpecUtil == InitUtil /\ [][NextUtil]_vars

\* ------------------------------------------- a pass over events without dates
\* events as they reach the reconciler when a source left a date out
DatedEvents ==
  [id : Ids, name : {"X"}, description : {"d1"},
   dateStart : {"2025-01-07", Null}, dateEnd : {"2025-01-12", Undefined}]

DatedEventLists == UNION {[1..k -> DatedEvents] : k \in 0..MaxLen}

\* one pass, from the document that holds A
NextDates ==
  \/ \E s \in Sports, es \in DatedEventLists : passes = 0 /\ StartPass(s, es)
  \/ \E ok \in BOOLEAN : ProcessEvent(ok)
  \/ BeginDeletes
  \/ \E eventId \in Ids, ok \in BOOLEAN : DeleteStep(eventId, ok)
  \/ UpdateSyncState
  \/ \E ok \in BOOLEAN : SaveAttempt(ok)

SpecDates == InitSeeded /\ [][NextDates]_vars

\* ----------------------------------------- runs over the same source data
\* a tournament as the source gives it: its id and code may be missing
Tournaments == [id : {"7", Undefined}, code : {"K", Undefined}, name : {"X"}]

TournamentLists == UNION {[1..k -> Tournaments] : k \in 0..MaxLen}

\* Math.random().toString(36).substr(2, 5)
Randoms == {"r1", "r2"}

\* `bwf-${tournament.id || Date.now()}-${tournament.code || Math.random()...}`
standardId(tournament, t, random) ==
  "bwf-" \o (IF tournament.id \in Falsy THEN ToString(t) ELSE tournament.id)
         \o "-" \o (IF tournament.code \in Falsy THEN random
                    ELSE tournament.code)

\* _processOfficialApiFormat at time t, rs[i] the random string drawn for the
\* i-th tournament; the tournaments of this model have both dates
standardize(data, t, rs) ==
  [i \in 1..Len(data) |->
     [id |-> standardId(data[i], t, rs[i]), name |-> data[i].name,
      description |-> "d1", dateStart |-> "2025-01-07",
      dateEnd |-> "2025-01-12"]]

\* nothing has run, and the source holds one list of tournaments for good
InitIds ==
  /\ disk = NoFile
  /\ calendarList = {}
  /\ remote = {}
  /\ nextRid = 1
  /\ now = 1
  /\ passes = 0
  /\ pc = "idle"
  /\ sportId = "bwf"
  /\ localEvents = <<>>
  /\ calendarId = 0
  /\ syncState = EmptySyncState
  /\ sportSyncState = [calendarId |-> 0, events |-> << >>,
                       stats |-> [totalEvents |-> 0, lastUpdate |-> NullTime]]
  /\ stats = ZeroStats
  /\ idx = 1
  /\ todo = {}
  /\ saveTry = 0
  /\ delays = <<>>
  /\ result = NoResult
  /\ log = <<>>
  /\ prior = << >>
  /\ prev = NoPrev
  /\ repairs = 0
  /\ repairedCount = 0
  /\ totalCount = 0
  /\ fnIn \in {[fn |-> "standardize", data |-> d] : d \in TournamentLists}
  /\ fnOut = NoCall

\* stage 2 of a run: adapter.standardize on the source data
Standardize(rs) ==
  /\ pc = "idle"
  /\ passes < MaxPasses
  /\ IF fnOut = NoCall THEN TRUE ELSE fnOut.run # passes
  /\ fnOut' = [fn |-> "standardize", run |-> passes,
               events |-> standardize(fnIn.data, now, rs)]
  /\ UNCHANGED <<disk, calendarList, remote, nextRid, now, passes, pc,
                 sportId, localEvents, calendarId, syncState, sportSyncState,
                 stats, idx, todo, saveTry, delays, result, log, prior, prev,
                 repairs, repairedCount, totalCount, fnIn>>

NextIds ==
  \/ \E rs \in [1..MaxLen -> Randoms] : Standardize(rs)
  \/ \E s \in Sports :
       /\ fnOut # NoCall
       /\ fnOut.run = passes
       /\ StartPass(s, fnOut.events)
  \/ \E ok \in BOOLEAN : ProcessEvent(ok)
  \/ BeginDeletes
  \/ \E eventId \in todo, ok \in BOOLEAN : DeleteStep(eventId, ok)
  \/ UpdateSyncState
  \/ \E ok \in BOOLEAN : SaveAttempt(ok)

SpecIds == InitIds /\ [][NextIds]_vars

\* ------------------------------------------------------------------ main
MainSports == {"bwf", "tennis"}

\* the sport ids handed to main
SportLists == UNION {[1..k -> MainSports] : k \in 1..MaxPasses}

\* what stage 2 hands to stage 3 in the runs of main explored here
MainEventLists == {<< >>, <<EventAX>>}

\* what ends an iteration before syncWithCalendar is called: a throw of
\* fetchTournamentData, saveRawTournamentData, loadLocalTournamentData or
\* getAdapter, or the continue for a sport without adapter
EarlyEnds == {"fetch", "save", "getAdapter", "load", "noAdapter"}

InitMain ==
  /\ disk = NoFile
  /\ calendarList = {}
  /\ remote = {}
  /\ nextRid = 1
  /\ now = 1
  /\ passes = 0
  /\ pc = "idle"
  /\ sportId = "bwf"
  /\ localEvents = <<>>
  /\ calendarId = 0
  /\ syncState = EmptySyncState
  /\ sportSyncState = [calendarId |-> 0, events |-> << >>,
                       stats |-> [totalEvents |-> 0, lastUpdate |-> NullTime]]
  /\ stats = ZeroStats
  /\ idx = 1
  /\ todo = {}
  /\ saveTry = 0
  /\ delays = <<>>
  /\ result = NoResult
  /\ log = <<>>
  /\ prior = << >>
  /\ prev = NoPrev
  /\ repairs = 0
  /\ repairedCount = 0
  /\ totalCount = 0
  /\ fnIn \in {[fn |-> "main", sportIds |-> l] : l \in SportLists}
  /\ fnOut = [fn |-> "main", i |-> 1, attempts |-> << >>, synced |-> 0,
              returned |-> FALSE]

\* a loop that gives up at the first sport that fails
nextSportM(i, n, failed) == IF failed THEN n + 1 ELSE i + 1

\* for (const sportId of sportIds) with the try / catch inside the body: the
\* next iteration, whether the body threw or not
nextSport(i, n, failed) == i + 1

MainUnchanged ==
  UNCHANGED <<disk, calendarList, remote, nextRid, now, passes, pc,
              sportId, localEvents, calendarId, syncState, sportSyncState,
              stats, idx, todo, saveTry, delays, result, log, prior, prev,
              repairs, repairedCount, totalCount, fnIn>>

\* the iteration for sportIds[i] is about to begin
AtSport ==
  /\ pc = "idle"
  /\ ~fnOut.returned
  /\ fnOut.i <= Len(fnIn.sportIds)
  /\ passes = fnOut.synced

\* an iteration that ends before stage 3
MainEarlyEnd(end) ==
  /\ AtSport
  /\ fnOut' = [fnOut EXCEPT
       !.attempts = Append(@, <<fnIn.sportIds[fnOut.i], end>>),
       !.i = nextSport(@, Len(fnIn.sportIds), end # "noAdapter")]
  /\ MainUnchanged

\* an iteration's syncWithCalendar has returned or thrown
MainAfterSync ==
  /\ pc = "idle"
  /\ ~fnOut.returned
  /\ passes = fnOut.synced + 1
  /\ fnOut' = [fnOut EXCEPT
       !.attempts = Append(@, <<sportId, result.kind>>),
       !.synced = passes,
       !.i = nextSport(@, Len(fnIn.sportIds), result.kind = "throw")]
  /\ MainUnchanged

\* after the loop: return { success: true }
MainReturn ==
  /\ pc = "idle"
  /\ ~fnOut.returned
  /\ passes = fnOut.synced
  /\ fnOut.i > Len(fnIn.sportIds)
  /\ fnOut' = [fnOut EXCEPT !.returned = TRUE]
  /\ MainUnchanged

NextMain ==
  \/ \E end \in EarlyEnds : MainEarlyEnd(end)
  \/ \E es \in MainEventLists :
       AtSport /\ StartPass(fnIn.sportIds[fnOut.i], es)
  \/ \E es \in MainEventLists :
       AtSport /\ StartPassThrows(fnIn.sportIds[fnOut.i], es)
  \/ \E ok \in BOOLEAN : ProcessEvent(ok)
  \/ BeginDeletes
  \/ \E eventId \in todo, ok \in BOOLEAN : DeleteStep(eventId, ok)
  \/ UpdateSyncState
  \/ \E ok \in BOOLEAN : SaveAttempt(ok)
  \/ MainAfterSync
  \/ MainReturn

SpecMain == InitMain /\ [][NextMain]_vars

\* ------------------------------------------ calendarService.createEvents
\* tournaments as the legacy calendar service receives them
LegacyTournaments ==
  [name : Names, description : Descs, dateStart : {"2025-01-07"},
   dateEnd : {"2025-01-12"}]

LegacyLists == UNION {[1..k -> LegacyTournaments] : k \in 0..MaxLen}

\* the key of existingEventsMap and processedEventKeys
eventKey(summary, startDate) == summary \o "|" \o startDate

\* the request body built for a tournament
legacyEventData(tournament) ==
  [summary |-> tournament.name, description |-> tournament.description,
   start |-> formatDate(tournament.dateStart, FALSE),
   end |-> formatDate(tournament.dateEnd, TRUE)]

needsUpdate(existingEvent, newEventData) ==
  \/ existingEvent.summary # newEventData.summary
  \/ existingEvent.description # newEventData.description
  \/ existingEvent.start # newEventData.start
  \/ existingEvent.end # newEventData.end

keyOf(entity) == eventKey(entity.data.summary, entity.data.start)

\* existingEventsMap: for each key the first listed event that has it
existingEventsMapOf(items) ==
  [key \in {keyOf(e) : e \in items} |->
     CHOOSE e \in items :
       /\ keyOf(e) = key
       /\ \A o \in items : keyOf(o) = key => e.id <= o.id]

\* calendars before the call: no two events with one key
LegacyCalendars ==
  {{}, {[id |-> 1, calendarId |-> 1,
         data |-> legacyEventData([name |-> "X", description |-> "d1",
                    dateStart |-> "2025-01-07", dateEnd |-> "2025-01-12"])]}}

InitCreate ==
  /\ disk = NoFile
  /\ calendarList = {[id |-> 1, summary |-> getCalendarName("bwf")]}
  /\ remote \in LegacyCalendars
  /\ nextRid = 2
  /\ now = 1
  /\ passes = 0
  /\ pc = "idle"
  /\ sportId = "bwf"
  /\ localEvents = <<>>
  /\ calendarId = 1
  /\ syncState = EmptySyncState
  /\ sportSyncState = [calendarId |-> 0, events |-> << >>,
                       stats |-> [totalEvents |-> 0, lastUpdate |-> NullTime]]
  /\ stats = ZeroStats
  /\ idx = 1
  /\ todo = {}
  /\ saveTry = 0
  /\ delays = <<>>
  /\ result = NoResult
  /\ log = <<>>
  /\ prior = << >>
  /\ prev = NoPrev
  /\ repairs = 0
  /\ repairedCount = 0
  /\ totalCount = 0
  /\ fnIn \in {[fn |-> "createEvents", tournaments |-> l] : l \in LegacyLists}
  /\ fnOut = [fn |-> "createEvents", at |-> "list", map |-> << >>,
              processed |-> {}, i |-> 1, inserted |-> << >>]

CreateUnchanged ==
  UNCHANGED <<disk, calendarList, now, passes, pc, sportId, localEvents,
              calendarId, syncState, sportSyncState, stats, idx, todo,
              saveTry, delays, result, log, prior, prev, repairs,
              repairedCount, totalCount, fnIn>>

\* the early return for an empty list, else calendar.events.list and the map
ListExisting(ok) ==
  /\ fnOut.fn = "createEvents"
  /\ fnOut.at = "list"
  /\ fnOut' =
       IF fnIn.tournaments = << >> THEN [fnOut EXCEPT !.at = "returned"]
       ELSE IF ~ok THEN [fnOut EXCEPT !.at = "thrown"]
       ELSE [fnOut EXCEPT !.at = "loop",
                          !.map = existingEventsMapOf(remote)]
  /\ UNCHANGED <<remote, nextRid>>
  /\ CreateUnchanged

\* one iteration of the loop over tournaments
ProcessTournament(ok) ==
  /\ fnOut.fn = "createEvents"
  /\ fnOut.at = "loop"
  /\ fnOut.i <= Len(fnIn.tournaments)
  /\ LET tournament == fnIn.tournaments[fnOut.i]
         key == eventKey(tournament.name, formatDate(tournament.dateStart,
                                                     FALSE))
         eventData == legacyEventData(tournament)
         known == key \in DOMAIN fnOut.map
         insert == ~known /\ ok
         update == known /\ needsUpdate(fnOut.map[key].data, eventData) /\ ok
     IN /\ remote' =
             IF insert
               THEN remote \cup {[id |-> nextRid, calendarId |-> calendarId,
                                  data |-> eventData]}
             ELSE IF update
               THEN {IF e.id = fnOut.map[key].id
                       THEN [e EXCEPT !.data = eventData] ELSE e : e \in remote}
             ELSE remote
        /\ nextRid' = IF insert THEN nextRid + 1 ELSE nextRid
        /\ fnOut' = [fnOut EXCEPT
             !.processed = @ \cup {key},
             !.i = @ + 1,
             !.inserted = IF insert THEN Append(@, key) ELSE @]
  /\ CreateUnchanged

\* the loop over the map's entries that no tournament named, in any order
DeleteUnprocessed(key, ok) ==
  /\ fnOut.fn = "createEvents"
  /\ fnOut.at = "loop"
  /\ fnOut.i > Len(fnIn.tournaments)
  /\ key \in DOMAIN fnOut.map
  /\ key \notin fnOut.processed
  /\ remote' = IF ok THEN {e \in remote : e.id # fnOut.map[key].id}
               ELSE remote
  /\ fnOut' = [fnOut EXCEPT !.processed = @ \cup {key}]
  /\ UNCHANGED nextRid
  /\ CreateUnchanged

CreateEventsReturn ==
  /\ fnOut.fn = "createEvents"
  /\ fnOut.at = "loop"
  /\ fnOut.i > Len(fnIn.tournaments)
  /\ DOMAIN fnOut.map \subseteq fnOut.processed
  /\ fnOut' = [fnOut EXCEPT !.at = "returned"]
  /\ UNCHANGED <<remote, nextRid>>
  /\ CreateUnchanged

NextCreate ==
  \/ \E ok \in BOOLEAN : ListExisting(ok)
  \/ \E ok \in BOOLEAN : ProcessTournament(ok)
  \/ \E key \in DOMAIN fnOut.map, ok \in BOOLEAN : DeleteUnprocessed(key, ok)
  \/ CreateEventsReturn

SpecCreate == InitCreate /\ [][NextCreate]_vars

\* ----------------------------------------------- a process that is stopped
Stopped == [kind |-> "stopped"]

\* a stop that flushes the in-memory document
stoppedM(file, doc) == FileOf(doc)

\* the file after the process was stopped inside a pass: what it was, since
\* the only write of a pass is saveSyncState at its end
stopped(file, doc) == file

\* the process ends (kill, crash, power) inside a pass, between two of its
\* awaits; its memory is lost
Stop ==
  /\ pc \in {"events", "deletes", "save"}
  /\ pc' = "idle"
  /\ result' = Stopped
  /\ disk' = stopped(disk, [syncState EXCEPT
                              !.sports = Put(@, sportId, sportSyncState)])
  /\ UNCHANGED <<calendarList, remote, nextRid, now, passes, sportId,
                 localEvents, calendarId, syncState, sportSyncState, stats,
                 idx, todo, saveTry, delays, log, prior, prev>>
  /\ UNCHANGED auxVars

NextStop ==
  \/ Next
  \/ Stop

SpecStop == Init /\ [][NextStop]_vars

\* -------------------------------- two processes, one pass each, one store
\* node index.js tennis & node index.js bwf & wait
PairSports == {"bwf", "tennis"}

PairEventLists == {<< >>, <<EventAX>>}

NotStarted ==
  [pc |-> "idle", calendarId |-> 0, syncState |-> EmptySyncState,
   sportSyncState |-> [calendarId |-> 0, events |-> << >>,
                       stats |-> [totalEvents |-> 0, lastUpdate |-> NullTime]],
   idx |-> 1, todo |-> {}, saveTry |-> 0, created |-> 0]

InitPair ==
  /\ \/ /\ disk = NoFile
        /\ calendarList = {}
        /\ remote = {}
        /\ nextRid = 1
     \/ /\ disk = FileOf([version |-> "1.0", lastSync |-> 1,
                    sports |-> [s \in {"bwf"} |->
                      [calendarId |-> 1,
                       events |-> [id \in {"A"} |->
                          [googleEventId |-> 1, lastSynced |-> 1,
                           hash |-> calculateEventHash(objectOf(EventAX))]],
                       stats |-> [totalEvents |-> 1, lastUpdate |-> 1]]]])
        /\ calendarList = {[id |-> 1, summary |-> getCalendarName("bwf")]}
        /\ remote = {[id |-> 1, calendarId |-> 1,
                      data |-> buildEventData(EventAX)]}
        /\ nextRid = 2
  /\ now = 1
  /\ passes = 0
  /\ pc = "idle"
  /\ sportId = "bwf"
  /\ localEvents = <<>>
  /\ calendarId = 0
  /\ syncState = EmptySyncState
  /\ sportSyncState = [calendarId |-> 0, events |-> << >>,
                       stats |-> [totalEvents |-> 0, lastUpdate |-> NullTime]]
  /\ stats = ZeroStats
  /\ idx = 1
  /\ todo = {}
  /\ saveTry = 0
  /\ delays = <<>>
  /\ result = NoResult
  /\ log = <<>>
  /\ prior = << >>
  /\ prev = NoPrev
  /\ repairs = 0
  /\ repairedCount = 0
  /\ totalCount = 0
  /\ fnIn \in {[fn |-> "pair", localEvents |-> l] :
                 l \in [PairSports -> PairEventLists]}
  /\ fnOut = [fn |-> "pair", procs |-> [s \in PairSports |-> NotStarted]]

PairUnchanged ==
  UNCHANGED <<passes, pc, sportId, localEvents, calendarId, syncState,
              sportSyncState, stats, idx, todo, saveTry, delays, result, log,
              prior, prev, repairs, repairedCount, totalCount, fnIn>>

Proc(s) == fnOut.procs[s]

\* the process of sport s, steps 1-5 of its pass
PairStart(s) ==
  /\ Proc(s).pc = "idle"
  /\ now' = now + 1
  /\ calendarList' = getOrCreateCalendarList(s)
  /\ fnOut' = [fnOut EXCEPT !.procs[s] =
       [@ EXCEPT
          !.pc = "events",
          !.calendarId = getOrCreateCalendarId(s),
          !.syncState = loadSyncState(disk),
          !.sportSyncState =
             IF s \in DOMAIN loadSyncState(disk).sports
               THEN loadSyncState(disk).sports[s]
               ELSE [calendarId |-> getOrCreateCalendarId(s),
                     events |-> << >>,
                     stats |-> [totalEvents |-> 0, lastUpdate |-> now']]]]
  /\ UNCHANGED <<disk, remote, nextRid>>
  /\ PairUnchanged

\* step 6 of the process of sport s, one iteration
PairProcessEvent(s, ok) ==
  /\ Proc(s).pc = "events"
  /\ Proc(s).idx <= Len(mapKeys(fnIn.localEvents[s]))
  /\ LET eventId == mapKeys(fnIn.localEvents[s])[Proc(s).idx]
         event == mapGet(fnIn.localEvents[s], eventId)
         eventHash == calculateEventHash(objectOf(event))
         events == Proc(s).sportSyncState.events
         action == decide(events, eventId, eventHash)
         done == /\ ok
                 /\ (action = "SKIP" \/ ~buildEventDataThrows(event))
                 /\ action = "UPDATE" =>
                      reaches(ok, remote, Proc(s).calendarId,
                              events[eventId].googleEventId)
     IN /\ action = "SKIP" => ok
        /\ remote' =
             IF action = "CREATE" /\ done
               THEN remote \cup {[id |-> nextRid,
                                  calendarId |-> Proc(s).calendarId,
                                  data |-> buildEventData(event)]}
             ELSE IF action = "UPDATE" /\ done
               THEN {IF r.id = events[eventId].googleEventId
                        /\ r.calendarId = Proc(s).calendarId
                       THEN [r EXCEPT !.data = buildEventData(event)]
                       ELSE r : r \in remote}
             ELSE remote
        /\ nextRid' = IF action = "CREATE" /\ done THEN nextRid + 1
                      ELSE nextRid
        /\ fnOut' = [fnOut EXCEPT !.procs[s] =
             [@ EXCEPT
                !.sportSyncState.events =
                   IF action = "CREATE"
                     THEN afterCall(done, created(@, eventId, nextRid, now,
                                                  eventHash), @)
                   ELSE IF action = "UPDATE"
                     THEN afterCall(done, updated(@, eventId, now, eventHash),
                                    @)
                   ELSE @,
                !.created = IF action = "CREATE" /\ done THEN @ + 1 ELSE @,
                !.idx = nextIdx(@, Len(mapKeys(fnIn.localEvents[s])), done)]]
  /\ UNCHANGED <<disk, calendarList, now>>
  /\ PairUnchanged

PairBeginDeletes(s) ==
  /\ Proc(s).pc = "events"
  /\ loopDone(Proc(s).idx, Len(mapKeys(fnIn.localEvents[s])))
  /\ fnOut' = [fnOut EXCEPT !.procs[s] =
       [@ EXCEPT !.pc = "deletes",
                 !.todo = DOMAIN Proc(s).sportSyncState.events]]
  /\ UNCHANGED <<disk, calendarList, remote, nextRid, now>>
  /\ PairUnchanged

\* step 7 of the process of sport s, one iteration
PairDeleteStep(s, eventId, ok) ==
  /\ Proc(s).pc = "deletes"
  /\ eventId \in Proc(s).todo
  /\ IF isOrphan(fnIn.localEvents[s], eventId)
       THEN LET syncData == Proc(s).sportSyncState.events[eventId]
                done == reaches(ok, remote, Proc(s).calendarId,
                                syncData.googleEventId) IN
         /\ remote' = IF done
                        THEN {r \in remote :
                                ~(r.id = syncData.googleEventId
                                  /\ r.calendarId = Proc(s).calendarId)}
                        ELSE remote
         /\ fnOut' = [fnOut EXCEPT !.procs[s] =
              [@ EXCEPT !.todo = @ \ {eventId},
                        !.sportSyncState.events =
                           afterCall(done, Remove(@, eventId), @)]]
       ELSE /\ ok
            /\ fnOut' = [fnOut EXCEPT !.procs[s].todo = @ \ {eventId}]
            /\ UNCHANGED remote
  /\ UNCHANGED <<disk, calendarList, nextRid, now>>
  /\ PairUnchanged

\* step 8 of the process of sport s up to the call of saveSyncState
PairUpdateSyncState(s) ==
  /\ Proc(s).pc = "deletes"
  /\ Proc(s).todo = {}
  /\ LET sport == [Proc(s).sportSyncState EXCEPT !.stats =
                     [totalEvents |-> Len(fnIn.localEvents[s]),
                      lastUpdate |-> now]]
     IN fnOut' = [fnOut EXCEPT !.procs[s] =
          [@ EXCEPT !.pc = "save",
                    !.sportSyncState = sport,
                    !.syncState = [@ EXCEPT !.sports = Put(@, s, sport),
                                            !.lastSync = now],
                    !.saveTry = 0]]
  /\ UNCHANGED <<disk, calendarList, remote, nextRid, now>>
  /\ PairUnchanged

\* saveSyncState of the process of sport s, one attempt
PairSaveAttempt(s, ok) ==
  /\ Proc(s).pc = "save"
  /\ Proc(s).saveTry < retries
  /\ disk' = IF ok THEN writeFile(disk, Proc(s).syncState) ELSE disk
  /\ fnOut' = [fnOut EXCEPT !.procs[s] =
       IF ok THEN [@ EXCEPT !.pc = "returned"]
       ELSE IF Proc(s).saveTry = retries - 1 THEN [@ EXCEPT !.pc = "thrown"]
       ELSE [@ EXCEPT !.saveTry = @ + 1]]
  /\ UNCHANGED <<calendarList, remote, nextRid, now>>
  /\ PairUnchanged

NextPair ==
  \/ \E s \in PairSports : PairStart(s)
  \/ \E s \in PairSports, ok \in BOOLEAN : PairProcessEvent(s, ok)
  \/ \E s \in PairSports : PairBeginDeletes(s)
  \/ \E s \in PairSports, eventId \in Ids, ok \in BOOLEAN :
       PairDeleteStep(s, eventId, ok)
  \/ \E s \in PairSports : PairUpdateSyncState(s)
  \/ \E s \in PairSports, ok \in BOOLEAN : PairSaveAttempt(s, ok)

SpecPair == InitPair /\ [][NextPair]_vars

\* ------------------------------- passes, repairs and drift on one store
\* what a source reports in the runs explored here: nothing, A, A renamed, B
OpsEventLists ==
  {<< >>, <<EventAX>>, <<[EventAX EXCEPT !.name = "Y"]>>,
   <<[EventAX EXCEPT !.id = "B"]>>}

\* somebody deletes the source's calendar in the remote system while no
\* operation runs: its events are gone, no calendar has its name, and its id
\* is not handed out again
ReplaceCalendar(c) ==
  /\ pc = "idle"
  /\ c \in calendarList
  /\ c.summary # "(deleted)"
  /\ calendarList' = (calendarList \ {c})
                        \cup {[id |-> c.id, summary |-> "(deleted)"]}
  /\ remote' = {r \in remote : r.calendarId # c.id}
  /\ UNCHANGED <<disk, nextRid, now, passes, pc, sportId, localEvents,
                 calendarId, syncState, sportSyncState, stats, idx, todo,
                 saveTry, delays, result, log, prior, prev>>
  /\ UNCHANGED auxVars

NextOps ==
  \/ \E s \in Sports, es \in OpsEventLists : StartPass(s, es)
  \/ \E s \in Sports, es \in OpsEventLists : StartPassThrows(s, es)
  \/ \E ok \in BOOLEAN : ProcessEvent(ok)
  \/ BeginDeletes
  \/ \E eventId \in Ids, ok \in BOOLEAN : DeleteStep(eventId, ok)
  \/ UpdateSyncState
  \/ \E ok \in BOOLEAN : SaveAttempt(ok)
  \/ \E s \in Sports : StartRepair(s)
  \/ \E eventId \in Ids, fault \in BOOLEAN : RepairCheck(eventId, fault)
  \/ RepairDone
  \/ \E ok \in BOOLEAN : RepairSave(ok)
  \/ \E rid \in 1..MaxPasses : Drift(rid)
  \/ \E c \in calendarList : ReplaceCalendar(c)

SpecOps == Init /\ [][NextOps]_vars

\* --------------------- repeated passes over one E, with faults that stop
\* transient failures (a request or a write that throws although the remote
\* and the disk are in order) happen in the first MaxPasses - 1 passes only
Faulty == passes < MaxPasses

\* syncWithCalendar, steps 1-5, called again and again with the same
\* localEvents; the pass counter and the clock stop counting once the
\* faults have stopped
RepeatPass(s, es) ==
  /\ pc = "idle"
  /\ passes > 0 => es = localEvents
  /\ passes' = IF Faulty THEN passes + 1 ELSE passes
  /\ now' = IF Faulty THEN now + 1 ELSE now
  /\ sportId' = s
  /\ localEvents' = es
  /\ calendarId' = getOrCreateCalendarId(s)
  /\ calendarList' = getOrCreateCalendarList(s)
  /\ syncState' = loadSyncState(disk)
  /\ sportSyncState' =
       IF s \in DOMAIN loadSyncState(disk).sports
         THEN loadSyncState(disk).sports[s]
         ELSE [calendarId |-> getOrCreateCalendarId(s), events |-> << >>,
               stats |-> [totalEvents |-> 0, lastUpdate |-> now']]
  /\ prior' = sportSyncState'.events
  /\ stats' = ZeroStats
  /\ idx' = 1
  /\ todo' = {}
  /\ saveTry' = 0
  /\ delays' = <<>>
  /\ result' = NoResult
  /\ log' = <<>>
  /\ prev' = Summary
  /\ pc' = "events"
  /\ UNCHANGED <<disk, remote, nextRid>>
  /\ UNCHANGED auxVars

NextLive ==
  \/ \E s \in Sports, es \in OpsEventLists : RepeatPass(s, es)
  \/ \E ok \in BOOLEAN : (ok \/ Faulty) /\ ProcessEvent(ok)
  \/ BeginDeletes
  \/ \E eventId \in Ids, ok \in BOOLEAN :
       (ok \/ Faulty) /\ DeleteStep(eventId, ok)
  \/ UpdateSyncState
  \/ \E ok \in BOOLEAN : (ok \/ Faulty) /\ SaveAttempt(ok)

\* the caller keeps invoking passes and every pass runs to its end
SpecLive == InitSeeded /\ [][NextLive]_vars /\ WF_vars(NextLive)

\* ------------------------------------- main, stage 1 events into stage 3
\* events as saveRawTournamentData stores them and loadLocalTournamentData
\* hands them to the adapter: dateStart is null when the source had no
\* start_date
StoredEvents ==
  [id : Ids, name : {"X"}, dateStart : {"2025-01-07", Null},
   dateEnd : {"2025-01-12"}]

StoredLists == UNION {[1..k -> StoredEvents] : k \in 0..MaxLen}

\* new Date(value).toISOString() of a day
toISOString(day) == day \o "T00:00:00.000Z"

\* _getDate(tournament, type): tournament.dates[type], else tournament[type],
\* else null
getDate(tournament, type) ==
  IF "dates" \in DOMAIN tournament
     /\ type \in DOMAIN tournament.dates
     /\ tournament.dates[type] \notin Falsy
    THEN toISOString(tournament.dates[type])
  ELSE IF type \in DOMAIN tournament /\ tournament[type] \notin Falsy
    THEN toISOString(tournament[type])
  ELSE Null

\* _generateDescription for a tournament of which only the name is kept here
generateDescription(tournament) ==
  tournament.name \o "\n\nSource: BWF Tournament Calendar"

\* _processTournamentsArray at time t with random string random: the standard
\* form of every tournament that has both dates
processTournamentsArray(tournaments, t, random) ==
  LET standard(tournament) ==
        [id |-> IF tournament.id \in Falsy
                  THEN "bwf-" \o ToString(t) \o "-" \o random
                  ELSE tournament.id,
         name |-> tournament.name,
         description |-> generateDescription(tournament),
         dateStart |-> getDate(tournament, "start"),
         dateEnd |-> getDate(tournament, "end")]
      all == [i \in 1..Len(tournaments) |-> standard(tournaments[i])]
  IN SelectSeq(all, LAMBDA e : e.dateStart \notin Falsy
                               /\ e.dateEnd \notin Falsy)

\* the state document and calendar hold A from an earlier run; the local
\* store holds one list of events for good
InitRun ==
  /\ disk = FileOf([version |-> "1.0", lastSync |-> 1,
                    sports |-> [s \in {"bwf"} |->
                      [calendarId |-> 1,
                       events |-> [id \in {"A"} |->
                          [googleEventId |-> 1, lastSynced |-> 1,
                           hash |-> calculateEventHash(objectOf(EventAX))]],
                       stats |-> [totalEvents |-> 1, lastUpdate |-> 1]]]])
  /\ calendarList = {[id |-> 1, summary |-> getCalendarName("bwf")]}
  /\ remote = {[id |-> 1, calendarId |-> 1, data |-> buildEventData(EventAX)]}
  /\ nextRid = 2
  /\ now = 1
  /\ passes = 0
  /\ pc = "idle"
  /\ sportId = "bwf"
  /\ localEvents = <<>>
  /\ calendarId = 0
  /\ syncState = EmptySyncState
  /\ sportSyncState = [calendarId |-> 0, events |-> << >>,
                       stats |-> [totalEvents |-> 0, lastUpdate |-> NullTime]]
  /\ stats = ZeroStats
  /\ idx = 1
  /\ todo = {}
  /\ saveTry = 0
  /\ delays = <<>>
  /\ result = NoResult
  /\ log = <<>>
  /\ prior = << >>
  /\ prev = NoPrev
  /\ repairs = 0
  /\ repairedCount = 0
  /\ totalCount = 0
  /\ fnIn \in {[fn |-> "main", stored |-> l] : l \in StoredLists}
  /\ fnOut = NoCall

\* main, lines 49-57: load, standardize, syncWithCalendar.  No stored event
\* has a key start, end or dates, so the list handed to the pass is empty and
\* the loop of step 6 has no iteration to take.
NextRun ==
  \/ \E s \in Sports, random \in Randoms :
       StartPass(s, processTournamentsArray(fnIn.stored, now, random))
  \/ \E s \in Sports, random \in Randoms :
       StartPassThrows(s, processTournamentsArray(fnIn.stored, now, random))
  \/ BeginDeletes
  \/ \E eventId \in Ids, ok \in BOOLEAN : DeleteStep(eventId, ok)
  \/ UpdateSyncState
  \/ \E ok \in BOOLEAN : SaveAttempt(ok)

SpecRun == InitRun /\ [][NextRun]_vars

\* ------------------------------------------------------------ vocabulary
idsOf(es) == {es[i].id : i \in 1..Len(es)}

\* both loops of the running / last pass are over
LoopsDone ==
  \/ pc = "save"
  \/ pc = "idle" /\ result.kind = "return"
  \/ pc = "idle" /\ result = Thrown("save")

HasReturned == pc = "idle" /\ result.kind = "return"

\* records of the pass's source in the persisted document
savedEvents ==
  IF disk.exists /\ sportId \in DOMAIN disk.doc.sports
    THEN disk.doc.sports[sportId].events
    ELSE << >>

linesOf(l, ops, id) == {i \in DOMAIN l : l[i].op \in ops /\ l[i].id = id}
failedLines(l) == {i \in DOMAIN l : ~l[i].ok}
callLines(l) == {i \in DOMAIN l : l[i].op \in {"create", "update", "delete"}}

Decisions == {"create", "update", "skip"}

TypeOK ==
  /\ pc \in {"idle", "events", "deletes", "save", "checks", "rsave"}
  /\ passes \in 0..MaxPasses
  /\ repairs \in 0..MaxRepairs
  /\ repairedCount \in 0..totalCount

\* ------------------------------------------------------------------ C1
\* C1: in one pass every distinct id of E gets exactly one of CREATE, UPDATE,
\* SKIP, decided from the records as loaded at pass start: CREATE iff there is
\* no record, SKIP iff the stored hash equals hash(e), UPDATE iff it differs.
C1_OneActionPerId ==
  \A k \in 1..Len(mapKeys(localEvents)) :
    LET id == mapKeys(localEvents)[k]
        chosen == linesOf(log, Decisions, id)
        h == calculateEventHash(objectOf(localEventsMapOf(localEvents)[id]))
    IN IF k < idx /\ result # Thrown("start")
         THEN /\ Cardinality(chosen) = 1
              /\ \A i \in chosen :
                   /\ (log[i].op = "create") <=> (id \notin DOMAIN prior)
                   /\ (log[i].op = "skip") <=>
                        (id \in DOMAIN prior /\ prior[id].hash = h)
                   /\ (log[i].op = "update") <=>
                        (id \in DOMAIN prior /\ prior[id].hash # h)
         ELSE chosen = {}

\* a pass that followed a pass of two CREATEs has decided SKIP for one event
\* and UPDATE for the other
C1_Witness ==
  /\ LoopsDone
  /\ \E i, j \in DOMAIN log : log[i].op = "skip" /\ log[j].op = "update"
  /\ prev.kind = "pass"
  /\ Cardinality(linesOf(prev.log, {"create"}, "A")) = 1
  /\ Cardinality(linesOf(prev.log, {"create"}, "B")) = 1

\* ------------------------------------------------------------------ C2
\* C2 as claimed: a second pass over an unchanged canonical set returns
\* created = updated = deleted = 0 whatever the adapter did in the first pass.
C2_IdempotentWhateverOutcome ==
  (/\ HasReturned
   /\ prev.kind = "pass"
   /\ prev.result.kind = "return"
   /\ prev.hashes = hashesOf(localEvents))
  => /\ result.stats.created = 0
     /\ result.stats.updated = 0
     /\ result.stats.deleted = 0

\* C2 amended: a second pass over an unchanged canonical set, following a pass
\* that returned and in which no adapter call threw, returns
\* created = updated = deleted = 0.
C2_IdempotentAfterCleanPass ==
  (/\ HasReturned
   /\ prev.kind = "pass"
   /\ prev.result.kind = "return"
   /\ failedLines(prev.log) = {}
   /\ prev.hashes = hashesOf(localEvents))
  => /\ result.stats.created = 0
     /\ result.stats.updated = 0
     /\ result.stats.deleted = 0

C2_Witness ==
  /\ HasReturned
  /\ prev.kind = "pass"
  /\ prev.result.kind = "return"
  /\ failedLines(prev.log) = {}
  /\ prev.hashes = hashesOf(localEvents)
  /\ Len(prev.log) = 2
  /\ result.stats.unchanged = 2

\* ------------------------------------------------------------------ C3
\* C3: after a pass with zero failures every id of E has a record in the saved
\* state whose hash is hash(e) of the event given in that pass.
C3_ConvergenceCompleteness ==
  (HasReturned /\ failedLines(log) = {})
  => \A id \in idsOf(localEvents) :
       /\ id \in DOMAIN savedEvents
       /\ savedEvents[id].hash =
            calculateEventHash(objectOf(localEventsMapOf(localEvents)[id]))

C3_Witness ==
  /\ HasReturned
  /\ failedLines(log) = {}
  /\ \E i, j \in DOMAIN log :
       log[i].op = "create" /\ log[j].op = "update"

\* ------------------------------------------------------------------ C4
everyEventUnchanged ==
  /\ result # Thrown("start")
  /\ passes > 0
  /\ \A id \in idsOf(localEvents) :
       /\ id \in DOMAIN prior
       /\ prior[id].hash =
            calculateEventHash(objectOf(localEventsMapOf(localEvents)[id]))
  /\ DOMAIN prior \subseteq idsOf(localEvents)

\* C4: a SKIPped event causes no create, update or delete call; a pass in
\* which every event is unchanged and the state has no orphan issues no
\* event-mutation call and returns
\* unchanged = the number of ids in E.
C4_SkipIssuesNoCall ==
  /\ \A i \in DOMAIN log :
       log[i].op = "skip" =>
         \A j \in DOMAIN log : log[j].id = log[i].id => j = i
  /\ everyEventUnchanged =>
       /\ callLines(log) = {}
       /\ HasReturned =>
            result.stats.unchanged = Cardinality(idsOf(localEvents))

C4_Witness ==
  /\ everyEventUnchanged
  /\ HasReturned
  /\ Cardinality(idsOf(localEvents)) = 2

\* ------------------------------------------------------------------ C5
orphansOf(es) == (DOMAIN prior) \ idsOf(es)

\* C5: once all events of E are processed, every id with a record that is
\* absent from E gets exactly one delete call, addressed to its record's
\* remote id; a successful call removes the record and counts in deleted.
\* With E empty and all deletes succeeding the pass returns deleted = n and
\* saves an empty records map.
C5_OrphansDeleted ==
  LoopsDone =>
    /\ \A id \in orphansOf(localEvents) :
         LET dels == linesOf(log, {"delete"}, id) IN
           /\ Cardinality(dels) = 1
           /\ \A i \in dels :
                /\ log[i].rid = prior[id].googleEventId
                /\ \A j \in DOMAIN log : log[j].op \in Decisions => j < i
                /\ log[i].ok <=> id \notin DOMAIN sportSyncState.events
    /\ stats.deleted =
         Cardinality({i \in DOMAIN log : log[i].op = "delete" /\ log[i].ok})
    /\ (/\ HasReturned
        /\ localEvents = <<>>
        /\ failedLines(log) = {})
       => /\ result.stats.deleted = Cardinality(DOMAIN prior)
          /\ savedEvents = << >>

C5_Witness ==
  /\ HasReturned
  /\ localEvents = <<>>
  /\ Cardinality(DOMAIN prior) = 2
  /\ result.stats.deleted = 2
  /\ savedEvents = << >>

\* ------------------------------------------------------------------ C6
sameRecord(before, after, id) ==
  /\ (id \in DOMAIN before) <=> (id \in DOMAIN after)
  /\ id \in DOMAIN before => after[id] = before[id]

\* C6: a failed CREATE, UPDATE or DELETE leaves the record of its event id as
\* it was loaded: absent after a failed CREATE, with the previous hash,
\* lastSynced and remote id after a failed UPDATE or DELETE; the document the
\* pass saves holds it that way too.
C6_FailureLeavesRecord ==
  \A i \in failedLines(log) :
    /\ (log[i].op = "create") <=> (log[i].id \notin DOMAIN prior)
    /\ sameRecord(prior, sportSyncState.events, log[i].id)
    /\ HasReturned => sameRecord(prior, savedEvents, log[i].id)

C6_Witness ==
  /\ HasReturned
  /\ \E i, j \in failedLines(log) :
       log[i].op = "update" /\ log[j].op = "delete"

\* ------------------------------------------------------------------ C7
\* C7: an adapter call that throws does not end the pass.  A pass with a
\* failed call still decides every id of E once, still calls delete for every
\* orphan, and the document it saves holds the result of every call that
\* succeeded; a started pass throws only out of saveSyncState.
C7_FailureIsolation ==
  /\ (pc = "idle" /\ result.kind = "throw" /\ result.at # "start")
       => saveTry = retries - 1
  /\ (HasReturned /\ failedLines(log) # {}) =>
       /\ \A id \in idsOf(localEvents) :
            Cardinality(linesOf(log, Decisions, id)) = 1
       /\ \A id \in orphansOf(localEvents) :
            Cardinality(linesOf(log, {"delete"}, id)) = 1
       /\ \A i \in DOMAIN log :
            LET id == log[i].id IN
              /\ (log[i].op = "create" /\ log[i].ok) =>
                   /\ id \in DOMAIN savedEvents
                   /\ savedEvents[id] =
                        [googleEventId |-> log[i].rid, lastSynced |-> now,
                         hash |-> hashesOf(localEvents)[id]]
              /\ (log[i].op = "update" /\ log[i].ok) =>
                   /\ id \in DOMAIN savedEvents
                   /\ savedEvents[id] =
                        [googleEventId |-> prior[id].googleEventId,
                         lastSynced |-> now,
                         hash |-> hashesOf(localEvents)[id]]
              /\ (log[i].op = "delete" /\ log[i].ok) =>
                   id \notin DOMAIN savedEvents

\* the update of the first event threw, the create of the second went through
\* and is in the saved document
C7_Witness ==
  /\ HasReturned
  /\ Len(log) = 2
  /\ log[1].op = "update" /\ ~log[1].ok
  /\ log[2].op = "create" /\ log[2].ok
  /\ log[2].id \in DOMAIN savedEvents

\* ------------------------------------------------------------------ C8
\* C8: the statistics a pass returns hold a failed count, one per event whose
\* adapter call threw.
C8_FailedCounted ==
  (HasReturned /\ failedLines(log) # {}) =>
    /\ "failed" \in DOMAIN result.stats
    /\ result.stats.failed = Cardinality(failedLines(log))

\* ------------------------------------------------------------------ C9
retryKey(line) ==
  <<line.op, line.id, IF line.op = "create" THEN 0 ELSE line.rid>>

checksOf(l, answers, id) ==
  {i \in 1..Len(l) : l[i].op = "get" /\ l[i].id = id
                     /\ l[i].answer \in answers}

\* a repair has run or is running, and found the source in the document
Auditing == repairs > 0 /\ sportId \in DOMAIN syncState.sports

\* C11: in repairSyncState a record is purged only when its existence check
\* answered 404; after any other failure (and after a found entity) the
\* record is exactly what was loaded, and it is not counted as repaired.
C11_PurgeOnlyOn404 ==
  Auditing =>
    /\ \A id \in DOMAIN prior :
         IF checksOf(log, {"404"}, id) # {}
           THEN id \notin DOMAIN sportSyncState.events
           ELSE /\ id \in DOMAIN sportSyncState.events
                /\ sportSyncState.events[id] = prior[id]
    /\ repairedCount =
         Cardinality({id \in DOMAIN prior : checksOf(log, {"404"}, id) # {}})

\* a finished repair in which one check failed with another error and one
\* answered 404: one record purged, one kept
C11_Witness ==
  /\ pc = "idle"
  /\ result.kind = "repaired"
  /\ result.repaired = 1
  /\ \E id \in DOMAIN prior :
       /\ checksOf(log, {"error"}, id) # {}
       /\ id \in DOMAIN sportSyncState.events
  /\ \E id \in DOMAIN prior :
       /\ checksOf(log, {"404"}, id) # {}
       /\ id \notin DOMAIN sportSyncState.events

\* ------------------------------------------------------------------ C12
Answers == {"found", "404", "error"}

\* the last operation was a repair and it returned its counts
RepairReturned == pc = "idle" /\ repairs > 0 /\ result.kind = "repaired"

\* C12: a repair that returns has checked every record it loaded exactly
\* once, returns total = the number of records at the start of the audit and
\* repaired = the number of records it purged, and the persisted document
\* then holds total - repaired records of the source.
C12_CountsOfRepair ==
  RepairReturned =>
    /\ \A id \in DOMAIN prior : Cardinality(checksOf(log, Answers, id)) = 1
    /\ Cardinality({i \in DOMAIN log : log[i].op = "get"})
         = Cardinality(DOMAIN prior)
    /\ result.total = Cardinality(DOMAIN prior)
    /\ result.repaired =
         Cardinality({id \in DOMAIN prior : id \notin DOMAIN savedEvents})
    /\ Cardinality(DOMAIN savedEvents) = result.total - result.repaired

\* a repair of two records that purged one of them
C12_Witness ==
  /\ RepairReturned
  /\ result.total = 2
  /\ result.repaired = 1
  /\ Cardinality(DOMAIN savedEvents) = 1

\* ------------------------------------------------------------------ C13
writesOf(l) == {i \in DOMAIN l : l[i].op = "write"}

\* C13: repairSyncState writes the state document if and only if it purged
\* at least one record: a finished repair has attempted a write exactly when
\* repairedCount > 0, and no step of a repair changes the persisted document
\* (or creates one where none was) unless it is the save of a repair that
\* purged something.
C13_WritesIffPurged ==
  /\ [](/\ (pc = "idle" /\ repairs > 0) =>
              (writesOf(log) # {} <=> repairedCount > 0)
        /\ pc = "rsave" => repairedCount > 0
        /\ pc = "checks" => writesOf(log) = {})
  /\ [][disk' # disk =>
          /\ pc = "rsave"
          /\ repairedCount > 0
          /\ disk' = FileOf([syncState EXCEPT
                 !.sports = Put(@, sportId, sportSyncState)])]_vars

\* a repair that purged a record and wrote the document at its second attempt
C13_Witness ==
  /\ RepairReturned
  /\ result.repaired > 0
  /\ Len(log) >= 2
  /\ log[Len(log)] = Write(TRUE)
  /\ log[Len(log) - 1] = Write(FALSE)
  /\ disk = FileOf(syncState)

\* ------------------------------------------------------------------ C15
\* the remote calendar holds the entity a record points to
refersToEntity(rec) == \E r \in remote : r.id = rec.googleEventId

\* every existence check of the running / last repair got a definitive answer
AllDefinitive ==
  \A i \in DOMAIN log : log[i].op = "get" => log[i].answer # "error"

C14_RecordsReferToEntities ==
  pc = "idle" =>
    \A s \in Sports :
      (disk.exists /\ s \in DOMAIN disk.doc.sports) =>
        \A id \in DOMAIN disk.doc.sports[s].events :
          refersToEntity(disk.doc.sports[s].events[id])

\* ------------------------------------------------------------------ C17
\* C17: saveSyncState makes at most three write attempts, returns at the
\* first one that succeeds, waits 1000 ms before the second and 2000 ms
\* before the third attempt (each wait strictly longer than the one before),
\* and throws only after the third attempt has failed.
C17_SaveRetries ==
  LoopsDone =>
    /\ saveTry \in 0..(retries - 1)
    /\ Len(delays) = saveTry
    /\ delays \in {<<>>, <<1000>>, <<1000, 2000>>}
    /\ \A i \in 1..(Len(delays) - 1) : delays[i] < delays[i + 1]
    /\ pc = "save" => disk # FileOf(syncState)
    /\ HasReturned => disk = FileOf(syncState)
    /\ (pc = "idle" /\ result = Thrown("save")) =>
         /\ saveTry = retries - 1
         /\ disk # FileOf(syncState)

\* a pass whose write succeeded at the third attempt, after both waits
C17_Witness ==
  /\ HasReturned
  /\ saveTry = retries - 1
  /\ delays = <<1000, 2000>>

\* ------------------------------------------------------------------ C18
\* C18: when the final state write of a pass has failed in its last retry,
\* syncWithCalendar throws: its outcome is the error, with no success flag
\* and no statistics; a pass returns its statistics only with the document
\* written.
C18_SaveFailureIsFatal ==
  /\ (pc = "idle" /\ LoopsDone /\ disk # FileOf(syncState)) =>
       /\ result.kind = "throw"
       /\ "stats" \notin DOMAIN result
       /\ "success" \notin DOMAIN result
       /\ saveTry = retries - 1
  /\ HasReturned => disk = FileOf(syncState)

\* a pass created an event and then failed to write the state three times
C18_Witness ==
  /\ pc = "idle"
  /\ result = Thrown("save")
  /\ stats.created > 0
  /\ disk # FileOf(syncState)

\* ------------------------------------------------------------------ C16
Loaded == fnIn.fn = "loadSyncState" /\ fnOut # NoCall

\* C16: when no state document exists (readFile fails with ENOENT)
\* loadSyncState returns, without an error, the empty default: version set,
\* no sources, lastSync null; any other failure of the read is thrown to the
\* caller and not replaced by the default.
C16_LoadDefaultOnlyWhenAbsent ==
  Loaded =>
    /\ (fnIn.read.kind = "error" /\ fnIn.read.code = "ENOENT") =>
         /\ fnOut.kind = "return"
         /\ fnOut.value.version = "1.0"
         /\ DOMAIN fnOut.value.sports = {}
         /\ fnOut.value.lastSync = NullTime
    /\ (fnIn.read.kind = "error" /\ fnIn.read.code # "ENOENT") =>
         /\ fnOut.kind = "throw"
         /\ fnOut.error = fnIn.read.code
    /\ fnIn.read.kind = "garbage" => fnOut.kind = "throw"
    /\ fnIn.read.kind = "data" =>
         fnOut = [kind |-> "return", value |-> fnIn.read.doc]

\* loadSyncState has thrown a permission error on
C16_Witness ==
  /\ Loaded
  /\ fnIn.read = [kind |-> "error", code |-> "EACCES"]
  /\ fnOut = [kind |-> "throw", error |-> "EACCES"]

\* ------------------------------------------------------------------ C19
Hashed == fnIn.fn = "calculateEventHash" /\ fnOut # NoCall

HashedScalars == {"name", "dateStart", "dateEnd", "category", "level",
                  "prize", "url"}
LocationKeys == {"city", "country", "venue"}

\* both events give every hashed field the same value
sameHashedValues(a, b) ==
  /\ \A key \in HashedScalars : get(a, key) = get(b, key)
  /\ \A key \in LocationKeys :
       get(locationOrEmpty(a), key) = get(locationOrEmpty(b), key)

\* C19: two events with equal values of name, dateStart, dateEnd, location
\* (city, country, venue), category, level, prize and url have the same
\* digest, whatever the order of the keys of the event objects and of their
\* location objects.
C19_HashIgnoresKeyOrder ==
  (Hashed /\ sameHashedValues(fnIn.a, fnIn.b)) => fnOut.a = fnOut.b

\* ------------------------------------------------------------------ C20
BookkeepingKeys == {"description", "lastUpdated", "source"}

\* the two objects are the same but for the values of the keys in `keys`
differOnlyIn(a, b, keys) ==
  /\ Len(a) = Len(b)
  /\ \A i \in DOMAIN a :
       /\ a[i][1] = b[i][1]
       /\ a[i][1] \notin keys => a[i][2] = b[i][2]

\* C20: two events that differ only in description, lastUpdated or source
\* have equal digests, and step 6 of a pass decides SKIP for an event whose
\* record was stored from an event that differs from it only in those
\* fields.
C20_BookkeepingFieldsNotHashed ==
  (Hashed /\ differOnlyIn(fnIn.a, fnIn.b, BookkeepingKeys)) =>
    /\ fnOut.a = fnOut.b
    /\ fnOut.action = "SKIP"

\* an event stored with one description, source and lastUpdated and met
\* again with others: same digest, SKIP
C20_Witness ==
  /\ Hashed
  /\ differOnlyIn(fnIn.a, fnIn.b, BookkeepingKeys)
  /\ \A key \in BookkeepingKeys : get(fnIn.a, key) # get(fnIn.b, key)
  /\ fnOut.a = fnOut.b
  /\ fnOut.action = "SKIP"

\* ------------------------------------------------------------------ C21
\* some hashed field has another value in b than in a
hashedFieldDiffers(a, b) ==
  \/ \E key \in HashedScalars : get(a, key) # get(b, key)
  \/ \E key \in LocationKeys :
       get(locationOrEmpty(a), key) # get(locationOrEmpty(b), key)

\* a missing field, null and the empty string taken for one value
blankAsOne(v) == IF v \in {Undefined, Null, ""} THEN "" ELSE v

shownFieldDiffers(a, b) ==
  \/ \E key \in HashedScalars :
       blankAsOne(get(a, key)) # blankAsOne(get(b, key))
  \/ \E key \in LocationKeys :
       get(locationOrEmpty(a), key) # get(locationOrEmpty(b), key)

dateless(event) ==
  \/ event.dateStart \in {Undefined, Null}
  \/ event.dateEnd \in {Undefined, Null}

\* C22: an event that reaches the pass without dateStart or dateEnd is
\* passed over with one logged failure: no remote entity is created or
\* changed for it, its record stays what was loaded (or absent), and the
\* other events of E get their decision and their successful results as
\* usual.
C22_DatelessEventSkipped ==
  /\ \A r \in remote : /\ r.data.start \notin {TypeError, RangeError}
                       /\ r.data.end \notin {TypeError, RangeError}
  /\ \A k \in 1..Len(mapKeys(localEvents)) :
       LET id == mapKeys(localEvents)[k]
           e == localEventsMapOf(localEvents)[id]
           lines == linesOf(log, Decisions, id)
       IN (k < idx /\ passes > 0) =>
            /\ Cardinality(lines) = 1
            /\ dateless(e) =>
                 /\ \A i \in lines : ~log[i].ok
                 /\ sameRecord(prior, sportSyncState.events, id)
                 /\ id \in DOMAIN prior =>
                      \E r \in remote :
                        /\ r.id = prior[id].googleEventId
                        /\ r.data = buildEventData(EventAX)
            /\ ~dateless(e) =>
                 \A i \in lines :
                   (log[i].ok /\ log[i].op # "skip") =>
                     /\ id \in DOMAIN sportSyncState.events
                     /\ sportSyncState.events[id].hash =
                          calculateEventHash(objectOf(e))

\* a pass met the event of a record without a date, logged the failure of its
\* update, left record and entity alone, and then created the next event of E
C22_Witness ==
  /\ HasReturned
  /\ Len(log) = 2
  /\ log[1].op = "update" /\ ~log[1].ok
  /\ dateless(localEventsMapOf(localEvents)[log[1].id])
  /\ log[2].op = "create" /\ log[2].ok
  /\ log[2].id \in DOMAIN savedEvents
  /\ savedEvents[log[1].id] = prior[log[1].id]

\* ------------------------------------------------------------------ C23
\* C23: the id of a canonical event is the same in every run over the same
\* source tournament: a second run over the same source data, after a first
\* run that returned without a failed call, meets the ids of the first, so
\* it creates no event again and deletes none.
C23_IdsStableAcrossRuns ==
  (/\ passes >= 2
   /\ LoopsDone
   /\ prev.kind = "pass"
   /\ prev.result.kind = "return"
   /\ failedLines(prev.log) = {})
    => /\ idsOf(localEvents) = DOMAIN prev.hashes
       /\ \A i \in DOMAIN log : log[i].op \notin {"create", "delete"}

\* ------------------------------------------------------------------ C24
\* the sport ids of the iterations begun so far, in the order they ended
attempted == [k \in 1..Len(fnOut.attempts) |-> fnOut.attempts[k][1]]

\* C24: in main a failure in any stage for one sport id (fetch, local save,
\* standardize, sync, a state write that failed for good included) does not
\* stop the run: the iterations that have ended are those of a prefix of the
\* sport id list, one each and in list order, and when main returns that
\* prefix is the whole list.
C24_MainGoesOn ==
  /\ Len(attempted) <= Len(fnIn.sportIds)
  /\ attempted = SubSeq(fnIn.sportIds, 1, Len(attempted))
  /\ fnOut.i = Len(attempted) + 1
  /\ fnOut.returned => attempted = fnIn.sportIds

\* main has returned after a first sport whose state write failed for good
\* and a second one whose sync returned
C24_Witness ==
  /\ fnOut.returned
  /\ Len(fnOut.attempts) = 2
  /\ fnOut.attempts[1][2] = "throw"
  /\ fnOut.attempts[2][2] = "return"
  /\ prev.kind = "pass"
  /\ prev.result = Thrown("save")

\* ------------------------------------------------------------------ C25
\* C25: createEvents never inserts an event whose title and start date an
\* event of the calendar already has, two tournaments of one name and start
\* date in the input list included: the calendar holds at most one event per
\* name|startDate key.
C25_OneEventPerKey ==
  fnOut.fn = "createEvents" =>
    \A e, o \in remote : keyOf(e) = keyOf(o) => e.id = o.id

\* ------------------------------------------------------------------ C26
\* the successful creates of the pass before, when that pass was stopped
\* before its state write, for events the running / last pass was given too
lostCreates ==
  IF prev.kind = "pass" /\ prev.result = Stopped
    THEN {i \in DOMAIN prev.log :
            /\ prev.log[i].op = "create"
            /\ prev.log[i].ok
            /\ prev.log[i].id \in idsOf(localEvents)}
    ELSE {}

remoteIds == {r.id : r \in remote}

\* C26: when the process stopped after successful creates of a pass and
\* before the pass's state write, the next pass over the same events finds no
\* record for them, decides CREATE for each, and a create that succeeds leaves
\* two remote entities for the one event id.
C26_StopDuplicates ==
  result # Thrown("start") =>
    \A i \in lostCreates :
      /\ prev.log[i].id \notin DOMAIN prior
      /\ \A j \in linesOf(log, Decisions, prev.log[i].id) :
           /\ log[j].op = "create"
           /\ log[j].ok =>
                /\ log[j].rid # prev.log[i].rid
                /\ {log[j].rid, prev.log[i].rid} \subseteq remoteIds

\* event A was created, the process stopped, and the next pass created A
\* again
C26_Witness ==
  /\ lostCreates # {}
  /\ \E i \in lostCreates, j \in DOMAIN log :
       /\ prev.log[i].id = "A"
       /\ log[j] = Line("create", "A", 2, TRUE)
       /\ prev.log[i].rid = 1
       /\ {1, 2} \subseteq remoteIds

C28_DeletesAfterDecisions ==
  \A i \in DOMAIN log :
    log[i].op = "delete" =>
      /\ \A j \in DOMAIN log : log[j].op \in Decisions => j < i
      /\ \A id \in idsOf(localEvents) : linesOf(log, Decisions, id) # {}

\* a pass whose update of A failed before it deleted the orphan B
C28_Witness ==
  /\ Len(log) = 2
  /\ log[1].op = "update"
  /\ log[1].id = "A"
  /\ ~log[1].ok
  /\ log[2].op = "delete"
  /\ log[2].id = "B"
  /\ log[2].ok

\* ------------------------------------------------------------------ C29
\* the successful adapter calls of the pass so far that concern id
doneLines(id) ==
  {i \in DOMAIN log :
     log[i].id = id /\ log[i].ok /\ log[i].op \in {"create", "update", "delete"}}

hashNow(id) == calculateEventHash(objectOf(mapGet(localEvents, id)))

\* C29: adapter calls are issued one after the other, and between any two of
\* them, and after the last, the in-memory records are the loaded records with
\* exactly the successful calls so far applied: a created id has the entity
\* and digest of its create, an updated id its old entity and new digest, a
\* deleted id no record, and every other id the record as loaded.
C29_MemoryReflectsCalls ==
  pc \in {"events", "deletes", "save"} =>
    \A id \in Ids :
      LET events == sportSyncState.events
          lines == doneLines(id)
      IN /\ Cardinality(lines) <= 1
         /\ lines = {} =>
              /\ id \in DOMAIN events <=> id \in DOMAIN prior
              /\ id \in DOMAIN events => events[id] = prior[id]
         /\ \A i \in lines :
              /\ log[i].op = "create" =>
                   /\ id \notin DOMAIN prior
                   /\ id \in DOMAIN events
                   /\ events[id].googleEventId = log[i].rid
                   /\ events[id].hash = hashNow(id)
              /\ log[i].op = "update" =>
                   /\ id \in DOMAIN prior
                   /\ id \in DOMAIN events
                   /\ events[id].googleEventId = prior[id].googleEventId
                   /\ events[id].hash = hashNow(id)
              /\ log[i].op = "delete" =>
                   /\ id \in DOMAIN prior
                   /\ id \notin DOMAIN events

\* between two events of a pass: the create of A succeeded and is in the
\* records, B waits for its turn with the record it was loaded with
C29_Witness ==
  /\ pc = "events"
  /\ Len(mapKeys(localEvents)) = 2
  /\ idx = 2
  /\ Len(log) = 1
  /\ log[1].op = "create"
  /\ log[1].id = "A"
  /\ log[1].ok
  /\ "A" \notin DOMAIN prior
  /\ sportSyncState.events["A"].googleEventId = log[1].rid
  /\ "B" \in DOMAIN prior
  /\ sportSyncState.events["B"] = prior["B"]

\* ------------------------------------------------------------------ C30
\* C30: when two passes for different sources have run concurrently against
\* one store and both have returned, the persisted document holds the
\* records of both as they finished: neither final write discarded the
\* other source's records.
C30_BothResultsPersisted ==
  (fnOut.fn = "pair" /\ \A s \in PairSports : Proc(s).pc = "returned") =>
    /\ disk.exists
    /\ \A s \in PairSports :
         /\ s \in DOMAIN disk.doc.sports
         /\ disk.doc.sports[s] = Proc(s).sportSyncState

\* ------------------------------------------------------------------ C31
\* the step appended one line to the call log
logged == Len(log') = Len(log) + 1 /\ SubSeq(log', 1, Len(log)) = log

lastLine == log'[Len(log')]

\* C31: inside a pass or a repair a record enters the source's records only
\* with a successful CREATE of its id, changes only with a successful UPDATE
\* of its id, which sets hash and lastSynced and nothing else, and leaves only
\* with a successful DELETE of its id or an existence check of its id that
\* answered not-found; a step that logs a SKIP, a failed call or any other
\* answer of a check changes no record.
C31_RecordLifecycle ==
  [][pc # "idle" =>
       LET before == sportSyncState.events
           after == sportSyncState'.events
       IN /\ \A id \in (DOMAIN after) \ (DOMAIN before) :
               /\ logged
               /\ lastLine.op = "create" /\ lastLine.id = id /\ lastLine.ok
          /\ \A id \in (DOMAIN before) \ (DOMAIN after) :
               /\ logged
               /\ lastLine.id = id
               /\ \/ lastLine.op = "delete" /\ lastLine.ok
                  \/ lastLine.op = "get" /\ lastLine.answer = "404"
          /\ \A id \in (DOMAIN before) \cap (DOMAIN after) :
               after[id] # before[id] =>
                 /\ logged
                 /\ lastLine.op = "update" /\ lastLine.id = id /\ lastLine.ok
                 /\ after[id].googleEventId = before[id].googleEventId
          /\ (/\ logged
              /\ \/ lastLine.op = "skip"
                 \/ lastLine.op \in {"create", "update", "delete"}
                      /\ ~lastLine.ok
                 \/ lastLine.op = "get" /\ lastLine.answer # "404"
                 \/ lastLine.op = "write") => after = before]_vars

\* a repair is purging the record a pass created for A, after the entity was
\* removed from the calendar
C31_Witness ==
  /\ pc = "checks"
  /\ passes >= 1
  /\ "A" \in DOMAIN prior
  /\ "A" \notin DOMAIN sportSyncState.events
  /\ \E i \in DOMAIN log : log[i] = Check("A", 1, "404")

\* ------------------------------------------------------------------ C32
\* the persisted records of the source are those of E: every id of E has a
\* record with the hash of its event, and no other id has a record
Converged ==
  /\ passes > 0
  /\ DOMAIN savedEvents = idsOf(localEvents)
  /\ \A id \in idsOf(localEvents) :
       savedEvents[id].hash =
         calculateEventHash(objectOf(localEventsMapOf(localEvents)[id]))

\* C32: under repeated passes with the same E and an adapter whose transient
\* failures eventually stop, the state eventually converges and stays
\* converged: every id of E has a record with the current hash and no orphan
\* record remains, an orphan whose remote entity is already gone included.
C32_EventuallyConverged == <>[]Converged

\* ------------------------------------------------------------------ C33
\* C33: in a run of main an event that stage 1 stored with an id and both
\* dates reaches the reconciler with that id, and the pass sends no delete
\* call for it.
C33_StoredEventsReachThePass ==
  (fnIn.fn = "main" /\ passes > 0 /\ result # Thrown("start")) =>
    \A i \in DOMAIN fnIn.stored :
      (fnIn.stored[i].dateStart \notin Falsy
       /\ fnIn.stored[i].dateEnd \notin Falsy) =>
        /\ fnIn.stored[i].id \in idsOf(localEvents)
        /\ linesOf(log, {"delete"}, fnIn.stored[i].id) = {}

\* ------------------------------------------------------------------ C34
\* C34: no id of E receives a delete call in the pass: every delete line is
\* for an id outside E that had a record at pass start, and a record created
\* in this pass, with its remote entity, is still there when the orphan phase
\* is over.
C34_NoDeleteForE ==
  /\ \A i \in DOMAIN log :
       log[i].op = "delete" =>
         /\ log[i].id \notin idsOf(localEvents)
         /\ log[i].id \in DOMAIN prior
  /\ \A j \in DOMAIN log :
       (log[j].op = "create" /\ log[j].ok) =>
         /\ log[j].id \in DOMAIN sportSyncState.events
         /\ sportSyncState.events[log[j].id].googleEventId = log[j].rid
         /\ log[j].rid \in remoteIds

\* a pass that created B and then deleted the orphan A
C34_Witness ==
  /\ LoopsDone
  /\ Len(log) = 2
  /\ log[1].op = "create" /\ log[1].id = "B" /\ log[1].ok
  /\ log[2].op = "delete" /\ log[2].id = "A" /\ log[2].ok
  /\ DOMAIN sportSyncState.events = {"B"}

\* ------------------------------------------------------------------ C35
\* records of the source in a file
recordsIn(file) ==
  IF file.exists /\ sportId \in DOMAIN file.doc.sports
    THEN file.doc.sports[sportId].events
    ELSE << >>

\* C35: a record keeps its remote id from the CREATE that made it to its
\* removal: no step of a pass or repair and no write of the document changes
\* the googleEventId of a record that stays, and a successful UPDATE is
\* addressed to the stored id and replaces hash and lastSynced only.
C35_RemoteIdFixed ==
  [][/\ pc # "idle" =>
          \A id \in (DOMAIN sportSyncState.events)
                      \cap (DOMAIN sportSyncState'.events) :
            LET before == sportSyncState.events[id]
                after == sportSyncState'.events[id]
            IN /\ after.googleEventId = before.googleEventId
               /\ (logged /\ lastLine.op = "update" /\ lastLine.id = id) =>
                    /\ lastLine.rid = before.googleEventId
                    /\ after = IF lastLine.ok
                                 THEN [before EXCEPT !.hash = hashNow(id),
                                                     !.lastSynced = now]
                                 ELSE before
     /\ \A id \in (DOMAIN recordsIn(disk)) \cap (DOMAIN recordsIn(disk')) :
          recordsIn(disk')[id].googleEventId
            = recordsIn(disk)[id].googleEventId]_vars

\* the second pass updated A on the entity the first pass created, and the
\* record still names that entity
C35_Witness ==
  /\ passes = 2
  /\ HasReturned
  /\ \E i \in DOMAIN prev.log, j \in DOMAIN log :
       /\ prev.log[i] = Line("create", "A", 1, TRUE)
       /\ log[j] = Line("update", "A", 1, TRUE)
  /\ savedEvents["A"].googleEventId = 1
  /\ savedEvents["A"].hash # prior["A"].hash

\* ------------------------------------------------------------------ C36
\* C36: the statistics agree with the state change of the pass: at every
\* point of a pass the number of records equals the number loaded plus
\* created minus deleted, created + updated + unchanged does not exceed the
\* number of distinct ids of E, and a pass that returns hands back these
\* statistics with the saved records counted the same way.
C36_StatsMatchRecords ==
  /\ pc \in {"events", "deletes", "save"} =>
       /\ Cardinality(DOMAIN sportSyncState.events)
            = Cardinality(DOMAIN prior) + stats.created - stats.deleted
       /\ stats.created + stats.updated + stats.unchanged
            <= Cardinality(idsOf(localEvents))
  /\ HasReturned =>
       /\ result.stats = stats
       /\ Cardinality(DOMAIN savedEvents)
            = Cardinality(DOMAIN prior) + result.stats.created
                - result.stats.deleted
       /\ result.stats.created + result.stats.updated + result.stats.unchanged
            <= Cardinality(idsOf(localEvents))

\* a returned pass over two loaded records that deleted one orphan, with a
\* call that failed and is in no counter
C36_Witness ==
  /\ HasReturned
  /\ passes = 2
  /\ result.stats = [created |-> 0, updated |-> 0, deleted |-> 1,
                     unchanged |-> 0]
  /\ Cardinality(DOMAIN prior) = 2
  /\ Cardinality(DOMAIN savedEvents) = 1
  /\ failedLines(log) # {}

\* ------------------------------------------------------------------ C37
\* the entry of source o in a file, or none
entryOf(file, o) ==
  IF file.exists /\ o \in DOMAIN file.doc.sports
    THEN <<file.doc.sports[o]>>
    ELSE << >>

\* C37: while the pass of source s runs on its own, the other source's pass
\* not begun, the persisted document changes in no step but the successful
\* final write, that write leaves the other source's entry, records and
\* statistics, exactly as it was, and a pass that fails at its final write
\* leaves the whole document unchanged.
C37_OtherSourcesUntouched ==
  [][\A s, o \in PairSports :
       (o # s /\ Proc(o).pc = "idle" /\ fnOut'.procs[o] = Proc(o)) =>
         /\ disk' # disk =>
              /\ Proc(s).pc = "save"
              /\ fnOut'.procs[s].pc = "returned"
              /\ entryOf(disk', o) = entryOf(disk, o)
              /\ entryOf(disk', s) = <<Proc(s).sportSyncState>>
         /\ fnOut'.procs[s].pc = "thrown" => disk' = disk]_vars

\* the pass of tennis has run alone, created A in its own calendar and
\* written; the entry of bwf is the one the document came with
C37_Witness ==
  /\ fnOut.fn = "pair"
  /\ Proc("tennis").pc = "returned"
  /\ Proc("bwf").pc = "idle"
  /\ Proc("tennis").created = 1
  /\ entryOf(disk, "bwf") # << >>
  /\ DOMAIN disk.doc.sports["bwf"].events = {"A"}
  /\ DOMAIN disk.doc.sports["tennis"].events = {"A"}

\* ------------------------------------------------------------------ C38
\* C38: repairSyncState sends only existence checks: no step of a repair
\* changes the calendars or their events, and its call log holds get and write
\* lines only.  It changes nothing in the state but the purged records: the
\* records it keeps are the loaded ones, remote id, hash and lastSynced, and
\* the document it writes is the one it read without the purged records,
\* other sources' entries included.
C38_RepairOnlyPurges ==
  /\ [](pc \in {"checks", "rsave"} =>
          /\ \A i \in DOMAIN log : log[i].op \in {"get", "write"}
          /\ \A id \in DOMAIN sportSyncState.events :
               /\ id \in DOMAIN prior
               /\ sportSyncState.events[id] = prior[id])
  /\ [][(pc \in {"checks", "rsave"} \/ repairs' # repairs) =>
          /\ remote' = remote
          /\ calendarList' = calendarList
          /\ nextRid' = nextRid
          /\ disk' # disk =>
               /\ disk.exists
               /\ disk' = FileOf([disk.doc EXCEPT
                    !.sports[sportId].events =
                       [id \in DOMAIN sportSyncState.events |-> @[id]]])]_vars

\* a repair of bwf has purged A, kept B and written; the entry of tennis is
\* still in the document
C38_Witness ==
  /\ RepairReturned
  /\ result.repaired = 1
  /\ DOMAIN prior = {"A", "B"}
  /\ DOMAIN savedEvents = {"B"}
  /\ savedEvents["B"] = prior["B"]
  /\ entryOf(disk, "tennis") # << >>

\* ------------------------------------------------------------------ C39
\* C39: after every pass that returns, the calendar id stored in the source's
\* persisted state is the calendar id the pass used for its adapter calls,
\* also when the remote calendar was replaced between passes.
C39_StoredCalendarIsUsedCalendar ==
  (HasReturned /\ passes > 0) =>
    /\ result.calendarId = calendarId
    /\ disk.doc.sports[sportId].calendarId = calendarId

====
